---- MODULE Spec2Model ----
(***************************************************************************)
(* KD-tree range search and the linear scan of NASP-Project.               *)
(*                                                                         *)
(* Numbers.  Planar coordinates are integers (meters).  A radius is a      *)
(* rational [num, den] with den > 0, so that the radii 9.9 and 10.0001 of  *)
(* the planar scenario are exact.  Every comparison the code makes is      *)
(* between a coordinate expression and the radius or its square and is     *)
(* evaluated exactly; the values used are far from the rounding limits of  *)
(* IEEE doubles, where the code's comparisons have the same outcome.       *)
(*                                                                         *)
(* Objects.  A KDNode is an object on a heap: `heap` is the sequence of    *)
(* allocated nodes and a node reference is its index (Null = 0).  A point  *)
(* is a JavaScript array; it is modelled as [id, c] where c is the tuple   *)
(* of its coordinates and id the identity of the array object.             *)
(***************************************************************************)
EXTENDS Integers, Sequences, FiniteSets, TLC

(***************************************************************************)
(* Bounds of the model.                                                    *)
(***************************************************************************)
MaxPoints == 4          \* longest input sequence
MaxCoord == 1           \* stored points have coordinates in 0..MaxCoord
MaxPlaces == 2          \* distinct geographic points of the linear scan
MaxMeters == 2          \* geodesic distances and radii of the linear scan
MaxElements == 2        \* elements in an Overpass response
MaxIterations == 2      \* measured rounds of the benchmark script
MaxSample == 1          \* a timing sample is in 0..MaxSample
MaxInputs == 3          \* user inputs and fetch results a map component receives

K == 2                  \* dimension of a planar point [x, y]
Warmups == 2            \* rounds of the benchmark script's warm-up loop

Null == 0

Coord == 0..MaxCoord

VARIABLES
    points,     \* the caller's point sequence handed to buildKDTree
    heap,       \* the allocated KDNode objects
    roots,      \* the roots buildKDTree has returned so far, in order
    query,      \* the arguments of the last rangeSearch call, or NoQuery
    results,    \* the array the last rangeSearch call returned
    prev,       \* the array the rangeSearch call before it returned
    calls,      \* number of rangeSearch calls made
    latlons,    \* the geographic points handed to the linear scan
    hav,        \* haversineMeters from the scan's center, per geographic point
    linRadius,  \* the radius handed to the linear scan
    linOut,     \* what the linear scan returned, or NoScan
    site,       \* the call site that made the last tree search, or "none"
    geoRadius,  \* radiusMeters: the geodesic radius the call sites are given
    center,     \* the query center (markerPos / centerLat, centerLon)
    trace,      \* what the last rangeSearchTrace call returned, or NoTrace
    overpass,   \* what the Overpass request comes back with
    component,  \* the component whose fetchRestaurants has run, or "none"
    restaurants,    \* the component's `restaurants` state
    benchError,     \* CompareMaps' `benchError` state, its only error state
    consoleErrors,  \* the causes handed to console.error, in order
    reply,      \* the response of the API route's POST, or NoReply
    iterations, \* benchmark.js: the number of measured rounds asked for
    warmupsDone,    \* benchmark.js: rounds of the warm-up loop completed (w)
    roundsDone,     \* benchmark.js: rounds of the measured loop completed (it)
    buildTimes,     \* benchmark.js: the samples of the build
    kdSearchTimes,  \* benchmark.js: the samples of the tree search
    linSearchTimes, \* benchmark.js: the samples of the linear scan
    report,     \* benchmark.js: the three results of stats, or NoReport
    ui,         \* a map component's search infos, step indices and playing flags
    awaiting,   \* CompareMaps: the runBothSearches calls waiting on their timeout
    inputsLeft  \* the user inputs and fetch results still to come

kdVars == <<points, heap, roots, query, results, prev, calls>>
linVars == <<latlons, hav, linRadius, linOut>>
siteVars == <<site, geoRadius, center, trace>>
fetchVars == <<overpass, component, restaurants, benchError, consoleErrors, reply>>
benchVars == <<iterations, warmupsDone, roundsDone, buildTimes, kdSearchTimes,
               linSearchTimes, report>>
playVars == <<ui, awaiting, inputsLeft>>
otherVars == <<siteVars, fetchVars, benchVars, playVars>>
vars == <<points, heap, roots, query, results, prev, calls,
          latlons, hav, linRadius, linOut, otherVars>>

(***************************************************************************)
(* Numbers                                                                 *)
(***************************************************************************)
Abs(x) == IF x < 0 THEN -x ELSE x

Rat(n, d) == [num |-> n, den |-> d]

\* Variant: the radius itself where its square is meant
SquareForgotten(r) ==
    [whole |-> r.num \div r.den, part |-> r.num % r.den, unit |-> r.den]

\* radiusMeters * radiusMeters, exactly, as the mixed number
\* whole + part / unit with 0 <= part < unit.
Square(r) ==
    LET n == Abs(r.num)
        a == n \div r.den
        b == n % r.den
        frac == 2 * a * b * r.den + b * b
        unit == r.den * r.den
    IN  [whole |-> a * a + frac \div unit, part |-> frac % unit, unit |-> unit]

\* i <= m for an integer i and a mixed number m
LeqMixed(i, m) == i <= m.whole

\* i < m for an integer i and a mixed number m
LessMixed(i, m) == i < m.whole \/ (i = m.whole /\ m.part > 0)

\* Variant: the plane test against r2, the squared radius
CrossesPlaneSquared(diff, radiusMeters) == LeqMixed(Abs(diff), Square(radiusMeters))

\* Variant: the plane test with < in place of <=
CrossesPlaneStrict(diff, radiusMeters) == Abs(diff) * radiusMeters.den < radiusMeters.num

\* Math.abs(diff) <= radiusMeters
CrossesPlane(diff, radiusMeters) == Abs(diff) * radiusMeters.den <= radiusMeters.num

(***************************************************************************)
(* Points and nodes                                                        *)
(***************************************************************************)
\* The value of an absent `points` argument (undefined or null).
Missing == << [id |-> 0, c |-> <<>>] >>

\* p[axis] of a point array, axis counted from 0 as in the code
At(p, axis) == p.c[axis + 1]

\* Variant: the constructor stores axis 0 whatever it is handed
KDNodeFirstAxis(point, axis) == [point |-> point, axis |-> 0, left |-> Null, right |-> Null]

\* new KDNode(point, axis)
KDNode(point, axis) == [point |-> point, axis |-> axis, left |-> Null, right |-> Null]

\* The comparator (a, b) => a[axis] - b[axis]
Compare(a, b, axis) == At(a, axis) - At(b, axis)

\* One step of the stable sort: e goes after every element that does not
\* compare greater than it.
InsertSorted(s, e, axis) ==
    LET pos == Cardinality({i \in 1..Len(s) : Compare(s[i], e, axis) <= 0})
    IN  SubSeq(s, 1, pos) \o <<e>> \o SubSeq(s, pos + 1, Len(s))

\* Variant: the copy is left in input order
SortSkipped(pts, axis) == pts

RECURSIVE SortByAxis(_, _)
\* [...points].sort((a, b) => a[axis] - b[axis]): a stable sort of a copy
SortByAxis(pts, axis) ==
    IF Len(pts) = 0 THEN <<>>
    ELSE InsertSorted(SortByAxis(SubSeq(pts, 1, Len(pts) - 1), axis), pts[Len(pts)], axis)

\* !points || points.length === 0
NoPoints(pts) == pts = Missing \/ Len(pts) = 0

\* Variant: a placeholder leaf at the origin where the code returns null
EmptyTreePlaceholder(h) ==
    [heap |-> Append(h, [point |-> [id |-> 0, c |-> [i \in 1..K |-> 0]], axis |-> 0,
                         left |-> Null, right |-> Null]),
     node |-> Len(h) + 1]

\* return null: nothing is allocated
EmptyTree(h) == [heap |-> h, node |-> Null]

\* Variant: points.sort(...) without the copy orders the caller's array itself
SortedInPlace(pts, sorted) == sorted

\* The array handed in, after `[...points].sort(...)`: the spread makes a new
\* array, the sort orders that one, and slice() reads without writing.
InputAfterSort(pts, sorted) == pts

\* Variant: the first element of the sorted subset is taken
MidFirst(sorted) == 0

\* Variant: the earlier of the two middle elements of an even count
MidLower(sorted) == (Len(sorted) - 1) \div 2

\* mid = Math.floor(sorted.length / 2), a zero-based index
Mid(sorted) == Len(sorted) \div 2

\* Variant: the left child is built from the slice after the median
LeftHalfFromEnd(sorted, mid) == SubSeq(sorted, mid + 2, Len(sorted))

\* sorted.slice(0, mid)
LeftHalf(sorted, mid) == SubSeq(sorted, 1, mid)

\* Variant: the right half starts one element later
RightHalfShort(sorted, mid) == SubSeq(sorted, mid + 3, Len(sorted))

\* sorted.slice(mid + 1)
RightHalf(sorted, mid) == SubSeq(sorted, mid + 2, Len(sorted))

RECURSIVE buildKDTree(_, _, _)
\* Returns the heap after the allocations, the reference of the subtree's root
\* and the array that was handed in as the call leaves it.
buildKDTree(h, pts, depth) ==
    IF NoPoints(pts) THEN [heap |-> EmptyTree(h).heap, node |-> EmptyTree(h).node,
                           input |-> pts]
    ELSE
        LET k == Len(pts[1].c)
            axis == depth % k
            sorted == SortByAxis(pts, axis)
            mid == Mid(sorted)
            node == Len(h) + 1
            h0 == Append(h, KDNode(sorted[mid + 1], axis))
            l == buildKDTree(h0, LeftHalf(sorted, mid), depth + 1)
            h1 == [l.heap EXCEPT ![node].left = l.node]
            r == buildKDTree(h1, RightHalf(sorted, mid), depth + 1)
            h2 == [r.heap EXCEPT ![node].right = r.node]
        IN  [heap |-> h2, node |-> node, input |-> InputAfterSort(pts, sorted)]

RECURSIVE SumSq(_, _, _)
SumSq(p1, p2, i) ==
    IF i > Len(p1) THEN 0
    ELSE (p1[i] - p2.c[i]) * (p1[i] - p2.c[i]) + SumSq(p1, p2, i + 1)

\* distanceSquared(target, point): the reduce over the target's coordinates
distanceSquared(p1, p2) == SumSq(p1, p2, 1)

\* Variant: the match test with < in place of <=
WithinRadiusStrict(target, point, radiusMeters) ==
    LessMixed(distanceSquared(target, point), Square(radiusMeters))

\* distanceSquared(target, root.point) <= r2
WithinRadius(target, point, radiusMeters) ==
    LeqMixed(distanceSquared(target, point), Square(radiusMeters))

\* Variant: a target on the plane is sent to the left
NearChildLeftOnTie(node, diff) == IF diff <= 0 THEN node.left ELSE node.right

\* The child on the target's side of the splitting plane, visited first
NearChild(node, diff) == IF diff < 0 THEN node.left ELSE node.right

\* Variant: the second descent repeats the first
FarChildSameSide(node, diff) == IF diff < 0 THEN node.left ELSE node.right

\* The child on the other side, visited only if the sphere crosses the plane
FarChild(node, diff) == IF diff < 0 THEN node.right ELSE node.left

RECURSIVE rangeSearch(_, _, _, _, _, _)
rangeSearch(h, root, target, radiusMeters, depth, res) ==
    IF root = Null THEN res
    ELSE
        LET node == h[root]
            k == Len(target)
            axis == depth % k
            res0 == IF WithinRadius(target, node.point, radiusMeters)
                    THEN Append(res, root) ELSE res
            diff == target[axis + 1] - At(node.point, axis)
            res1 == rangeSearch(h, NearChild(node, diff), target, radiusMeters, depth + 1, res0)
        IN  IF CrossesPlane(diff, radiusMeters)
            THEN rangeSearch(h, FarChild(node, diff), target, radiusMeters, depth + 1, res1)
            ELSE res1

\* The calls of rangeSearch on a node, in the order they are made: each entry
\* is the node a call received, the depth it received it at and the axis it
\* computed.  The call on the near child is made first, the call on the far
\* child after it returns.
RECURSIVE rangeSearchCalls(_, _, _, _, _, _)
rangeSearchCalls(h, root, target, radiusMeters, depth, log) ==
    IF root = Null THEN log
    ELSE
        LET node == h[root]
            k == Len(target)
            axis == depth % k
            log0 == Append(log, [node |-> root, depth |-> depth, axis |-> axis])
            diff == target[axis + 1] - At(node.point, axis)
            log1 == rangeSearchCalls(h, NearChild(node, diff), target, radiusMeters, depth + 1, log0)
        IN  IF CrossesPlane(diff, radiusMeters)
            THEN rangeSearchCalls(h, FarChild(node, diff), target, radiusMeters, depth + 1, log1)
            ELSE log1

\* Variant: one array shared by every call that omits the argument
DefaultResultsShared(last) == last

\* The default value of the `results` parameter, `[]`, evaluated at each call
\* that omits the argument; `last` is the array the previous call returned.
DefaultResults(last) == <<>>

(***************************************************************************)
(* The linear scan.  A geographic point [lat, lon] is an element of        *)
(* Places; the great-circle distance is not computed: `table` gives, for   *)
(* each place, its haversineMeters distance from the scan's center, and    *)
(* every table is considered.                                              *)
(***************************************************************************)
Places == 1..MaxPlaces

\* haversineMeters(centerLatLon[0], centerLatLon[1], plat, plon)
haversineMeters(table, place) == table[place]

\* Variant: the radius test with < in place of <=
WithinMetersStrict(meters, radiusMeters) == meters < radiusMeters

\* haversineMeters(...) <= radiusMeters
WithinMeters(meters, radiusMeters) == meters <= radiusMeters

\* The planar image of a geographic point, left uninterpreted
Projected(place) == <<"xy", place>>

RECURSIVE GeoLoop(_, _, _, _, _)
\* The for loop of linearSearchGeo from index i on.  `evals` lists the
\* indices whose distance has been evaluated, in order.
GeoLoop(ll, table, radiusMeters, i, acc) ==
    IF ~(i < Len(ll)) THEN acc
    ELSE
        LET place == ll[i + 1]
            within == WithinMeters(haversineMeters(table, place), radiusMeters)
        IN  GeoLoop(ll, table, radiusMeters, i + 1,
                    [resIdx |-> IF within THEN Append(acc.resIdx, i) ELSE acc.resIdx,
                     evals |-> Append(acc.evals, i)])

linearSearchGeo(ll, table, radiusMeters) ==
    LET out == GeoLoop(ll, table, radiusMeters, 0, [resIdx |-> <<>>, evals |-> <<>>])
    IN  [fn |-> "linearSearchGeo", resIdx |-> out.resIdx, evals |-> out.evals]

RECURSIVE TraceLoop(_, _, _, _, _, _)
\* The for loop of linearRangeSearchTraceGeo from index i on
TraceLoop(projectedPoints, latLonPoints, table, radiusMeters, i, acc) ==
    IF ~(i < Len(projectedPoints)) THEN acc
    ELSE
        LET place == latLonPoints[i + 1]
            within == WithinMeters(haversineMeters(table, place), radiusMeters)
            step == [id |-> i + 1, point |-> projectedPoints[i + 1], axis |-> -1,
                     diff |-> 0, within |-> within, branched |-> FALSE]
        IN  TraceLoop(projectedPoints, latLonPoints, table, radiusMeters, i + 1,
                      [steps |-> Append(acc.steps, step),
                       resultsIdx |-> IF within THEN Append(acc.resultsIdx, i)
                                      ELSE acc.resultsIdx,
                       evals |-> Append(acc.evals, i)])

linearRangeSearchTraceGeo(projectedPoints, latLonPoints, table, radiusMeters) ==
    LET out == TraceLoop(projectedPoints, latLonPoints, table, radiusMeters, 0,
                         [steps |-> <<>>, resultsIdx |-> <<>>, evals |-> <<>>])
    IN  [fn |-> "linearRangeSearchTraceGeo", steps |-> out.steps,
         resIdx |-> out.resultsIdx, visited |-> Len(out.steps), evals |-> out.evals]

NoScan == [fn |-> "none"]

(***************************************************************************)
(* Inputs                                                                  *)
(***************************************************************************)
Planar == [1..K -> Coord]

\* A sequence of coordinate tuples as a sequence of distinct array objects
WithIds(s) == [i \in 1..Len(s) |-> [id |-> i, c |-> s[i]]]

SeqsUpTo(n) == UNION {[1..m -> Planar] : m \in 0..n}

\* Longer inputs are taken in one order per multiset: descending in (y, x),
\* so that the sorts on either axis have work to do.
Key(c) == c[2] * (MaxCoord + 1) + c[1]
Descending(s) == \A i \in 1..(Len(s) - 1) : Key(s[i]) >= Key(s[i + 1])

ExhaustiveLen == IF MaxPoints > 2 THEN MaxPoints - 2 ELSE MaxPoints

\* The planar scenario: (0,0), (10,0), (0,10)
ScenarioPoints == << <<0, 0>>, <<10, 0>>, <<0, 10>> >>

Inputs ==
    SeqsUpTo(ExhaustiveLen)
    \cup {s \in SeqsUpTo(MaxPoints) : Descending(s)}
    \cup {ScenarioPoints}

\* Query centers lie on and around the grid of the stored points
Targets == [1..K -> (-1)..(MaxCoord + 1)]

Radii == {Rat(-1, 1), Rat(0, 1), Rat(1, 1), Rat(3, 2), Rat(2, 1),
          Rat(99, 10), Rat(100001, 10000)}

NoQuery == [tree |-> 0, target |-> <<>>, radius |-> Rat(0, 1)]

NoCenter == [lat |-> 0, lon |-> 0]

NoTrace == [steps |-> <<>>, results |-> <<>>, visited |-> 0]

\* The parts of the state a specification does not use stay as they start
KdIdle ==
    /\ points = <<>>
    /\ heap = <<>>
    /\ roots = <<>>
    /\ query = NoQuery
    /\ results = <<>>
    /\ prev = <<>>
    /\ calls = 0

LinIdle ==
    /\ latlons = <<>>
    /\ hav = [g \in Places |-> 0]
    /\ linRadius = 0
    /\ linOut = NoScan

SitesIdle ==
    /\ site = "none"
    /\ geoRadius = Rat(0, 1)
    /\ center = NoCenter
    /\ trace = NoTrace

\* A missing property, header or body
Undefined == -1

NoResponse == [rejects |-> FALSE, ok |-> TRUE, jsonType |-> TRUE, body |-> "none",
               elements |-> <<>>]

NoReply == [status |-> 0, body |-> [none |-> TRUE]]

FetchIdle ==
    /\ overpass = NoResponse
    /\ component = "none"
    /\ restaurants = <<>>
    /\ benchError = Undefined
    /\ consoleErrors = <<>>
    /\ reply = NoReply

NoReport == [b |-> [n |-> Undefined], k |-> [n |-> Undefined], l |-> [n |-> Undefined]]

BenchIdle ==
    /\ iterations = 0
    /\ warmupsDone = 0
    /\ roundsDone = 0
    /\ buildTimes = <<>>
    /\ kdSearchTimes = <<>>
    /\ linSearchTimes = <<>>
    /\ report = NoReport

\* No component mounted
NoUi == [mounted |-> FALSE]

PlayIdle ==
    /\ ui = NoUi
    /\ awaiting = <<>>
    /\ inputsLeft = 0

OtherIdle == SitesIdle /\ FetchIdle /\ BenchIdle /\ PlayIdle

(***************************************************************************)
(* The program: a caller builds trees from its point sequence and queries  *)
(* them.                                                                   *)
(***************************************************************************)
Init ==
    /\ points \in {WithIds(s) : s \in Inputs} \cup {Missing}
    /\ heap = <<>>
    /\ roots = <<>>
    /\ query = NoQuery
    /\ results = <<>>
    /\ prev = <<>>
    /\ calls = 0
    /\ LinIdle
    /\ OtherIdle

\* root = buildKDTree(points)
Build ==
    /\ roots = <<>>
    /\ \E built \in {buildKDTree(heap, points, 0)} :
          /\ heap' = built.heap
          /\ roots' = Append(roots, built.node)
          /\ points' = built.input
    /\ UNCHANGED <<query, results, prev, calls>>
    /\ UNCHANGED <<linVars, otherVars>>

\* results = rangeSearch(root, target, radiusMeters)
Query ==
    /\ Len(roots) = 1
    /\ calls = 0
    /\ \E target \in Targets, radiusMeters \in Radii :
        /\ query' = [tree |-> 1, target |-> target, radius |-> radiusMeters]
        /\ results' = rangeSearch(heap, roots[1], target, radiusMeters, 0,
                                  DefaultResults(results))
    /\ prev' = results
    /\ calls' = 1
    /\ UNCHANGED <<points, heap, roots>>
    /\ UNCHANGED <<linVars, otherVars>>

Next == Build \/ Query

Spec == Init /\ [][Next]_vars

\* root2 = buildKDTree(points): a second tree from the same point sequence
BuildAgain ==
    /\ Len(roots) = 1
    /\ calls = 1
    /\ \E built \in {buildKDTree(heap, points, 0)} :
          /\ heap' = built.heap
          /\ roots' = Append(roots, built.node)
          /\ points' = built.input
    /\ UNCHANGED <<query, results, prev, calls>>
    /\ UNCHANGED <<linVars, otherVars>>

\* The same call again, on the tree built last
Requery ==
    /\ calls = 1
    /\ query' = [query EXCEPT !.tree = Len(roots)]
    /\ results' = rangeSearch(heap, roots[Len(roots)], query.target, query.radius, 0,
                              DefaultResults(results))
    /\ prev' = results
    /\ calls' = 2
    /\ UNCHANGED <<points, heap, roots>>
    /\ UNCHANGED <<linVars, otherVars>>

NextTwice == Build \/ Query \/ BuildAgain \/ Requery

SpecTwice == Init /\ [][NextTwice]_vars

(***************************************************************************)
(* The linear scan on its own: a caller with a point list, a center and a  *)
(* radius runs one of the two scans.                                       *)
(***************************************************************************)
InitLinear ==
    /\ KdIdle
    /\ OtherIdle
    /\ latlons \in UNION {[1..n -> Places] : n \in 0..MaxPoints}
    /\ hav \in [Places -> 0..MaxMeters]
    /\ linRadius \in 0..MaxMeters
    /\ linOut = NoScan

\* benchmark.js: linearSearchGeo(latlons, [centerLat, centerLon], radiusMeters)
ScanGeo ==
    /\ linOut = NoScan
    /\ linOut' = linearSearchGeo(latlons, hav, linRadius)
    /\ UNCHANGED <<latlons, hav, linRadius>>
    /\ UNCHANGED <<kdVars, otherVars>>

\* CompareMaps: linearRangeSearchTraceGeo(projected, latlons, center, radiusMeters)
ScanTrace ==
    /\ linOut = NoScan
    /\ linOut' = linearRangeSearchTraceGeo([i \in 1..Len(latlons) |-> Projected(latlons[i])],
                                           latlons, hav, linRadius)
    /\ UNCHANGED <<latlons, hav, linRadius>>
    /\ UNCHANGED <<kdVars, otherVars>>

NextLinear == ScanGeo \/ ScanTrace

SpecLinear == InitLinear /\ [][NextLinear]_vars

(***************************************************************************)
(* The call sites of the tree search: each is given a center and a         *)
(* geodesic radius in meters and hands the tree search a planar radius.    *)
(* Planar coordinates are in grid steps; latitudes are those whose cosine  *)
(* is rational, and the projection is a table over them.  Each call site   *)
(* belongs to its own program or component, so a run stays with one site.  *)
(***************************************************************************)
Lats == {0, 60}

\* Math.cos((lat * Math.PI) / 180)
Cos(lat) == IF lat = 0 THEN Rat(1, 1) ELSE Rat(1, 2)

\* Centers at either edge of the grid, on each latitude
Centers == [lat : Lats, lon : {0, MaxCoord}]

GeoRadii == {Rat(m, 1) : m \in 1..MaxMeters}

\* lonLatToMercator([lon, lat]): x grows with the longitude, y with the
\* latitude, and latitude 0 is y = 0
lonLatToMercator(c) == <<c.lon, IF c.lat = 0 THEN 0 ELSE 1>>

\* rProj = radiusMeters / Math.cos(phiRad)
ProjectedRadius(radiusMeters, lat) ==
    Rat(radiusMeters.num * Cos(lat).den, radiusMeters.den * Cos(lat).num)

RECURSIVE dfs(_, _, _, _, _, _)
\* The traversal of rangeSearchTrace; acc holds steps, results and visitId
dfs(h, node, target, projectedRadius, depth, acc) ==
    IF node = Null THEN acc
    ELSE
        LET n == h[node]
            k == Len(target)
            axis == depth % k
            diff == target[axis + 1] - At(n.point, axis)
            within == WithinRadius(target, n.point, projectedRadius)
            id == acc.visitId + 1
            idx == Len(acc.steps)
            acc0 == [steps |-> Append(acc.steps,
                                      [id |-> id, point |-> n.point, axis |-> axis,
                                       diff |-> diff, within |-> within,
                                       branched |-> FALSE]),
                     results |-> IF within THEN Append(acc.results, node)
                                 ELSE acc.results,
                     visitId |-> id]
            main == IF diff < 0 THEN n.left ELSE n.right
            other == IF diff < 0 THEN n.right ELSE n.left
            acc1 == dfs(h, main, target, projectedRadius, depth + 1, acc0)
            branched == CrossesPlane(diff, projectedRadius)
            acc2 == IF branched
                    THEN dfs(h, other, target, projectedRadius, depth + 1, acc1)
                    ELSE acc1
        IN  [acc2 EXCEPT !.steps[idx + 1].branched = branched]

\* Variant: visited counts the matches, results.length
rangeSearchTraceCountsHits(h, root, target, projectedRadius) ==
    LET acc == dfs(h, root, target, projectedRadius, 0,
                   [steps |-> <<>>, results |-> <<>>, visitId |-> 0])
    IN  [steps |-> acc.steps, results |-> acc.results, visited |-> Len(acc.results)]

\* rangeSearchTrace(root, target, projectedRadius), without its timing
rangeSearchTrace(h, root, target, projectedRadius) ==
    LET acc == dfs(h, root, target, projectedRadius, 0,
                   [steps |-> <<>>, results |-> <<>>, visitId |-> 0])
    IN  [steps |-> acc.steps, results |-> acc.results, visited |-> Len(acc.steps)]

\* Variant: a visit reorders the node's children
NodeReordered(node) == [node EXCEPT !.left = node.right, !.right = node.left]

\* A node after rangeSearch or dfs has visited it: both read point, left and
\* right and assign no field; results and steps only take references.
NodeAfterVisit(node) == node

\* The nodes a search from root visits
Visited(h, root, target, radiusMeters) ==
    LET steps == rangeSearchTrace(h, root, target, radiusMeters).steps
        seen == {steps[i].point : i \in 1..Len(steps)}
    IN  {n \in DOMAIN h : h[n].point \in seen}

\* The heap after a search that visited the nodes in `visited`
HeapAfterSearch(h, visited) ==
    [n \in DOMAIN h |-> IF n \in visited THEN NodeAfterVisit(h[n]) ELSE h[n]]

\* The call sites are run on inputs of distinct points, one order per set
Distinct(s) == \A i \in 1..(Len(s) - 1) : Key(s[i]) > Key(s[i + 1])

SiteInputs == {s \in SeqsUpTo(MaxPoints) : Distinct(s)}

InitSites ==
    /\ points \in {WithIds(s) : s \in SiteInputs}
    /\ heap = <<>>
    /\ roots = <<>>
    /\ query = NoQuery
    /\ results = <<>>
    /\ prev = <<>>
    /\ calls = 0
    /\ LinIdle
    /\ FetchIdle
    /\ BenchIdle
    /\ PlayIdle
    /\ site = "none"
    /\ geoRadius \in GeoRadii
    /\ center \in Centers
    /\ trace = NoTrace

\* root = buildKDTree(projected); rangeSearch(root, centerMerc, passed)
BuildAndSearch(name, passed) ==
    \E b \in {buildKDTree(<<>>, points, 0)}, centerMerc \in {lonLatToMercator(center)} :
        /\ site \in {"none", name}
        /\ points' = b.input
        /\ roots' = <<b.node>>
        /\ query' = [tree |-> 1, target |-> centerMerc, radius |-> passed]
        /\ results' = rangeSearch(b.heap, b.node, centerMerc, passed, 0,
                                  DefaultResults(results))
        /\ heap' = HeapAfterSearch(b.heap, Visited(b.heap, b.node, centerMerc, passed))
        /\ trace' = NoTrace
        /\ site' = name
        /\ UNCHANGED <<prev, calls, geoRadius, center>>
        /\ UNCHANGED <<linVars, fetchVars, benchVars, playVars>>

\* root = buildKDTree(projected); kdInfo = rangeSearchTrace(root, centerMerc, passed)
BuildAndTrace(name, passed) ==
    \E b \in {buildKDTree(<<>>, points, 0)}, centerMerc \in {lonLatToMercator(center)} :
      \E info \in {rangeSearchTrace(b.heap, b.node, centerMerc, passed)} :
        /\ site \in {"none", name}
        /\ points' = b.input
        /\ roots' = <<b.node>>
        /\ query' = [tree |-> 1, target |-> centerMerc, radius |-> passed]
        /\ trace' = info
        /\ results' = info.results
        /\ heap' = HeapAfterSearch(b.heap, Visited(b.heap, b.node, centerMerc, passed))
        /\ site' = name
        /\ UNCHANGED <<prev, calls, geoRadius, center>>
        /\ UNCHANGED <<linVars, fetchVars, benchVars, playVars>>

\* benchmark.js, warm-up round
BenchmarkWarmup ==
    BuildAndSearch("benchmark.warmup", ProjectedRadius(geoRadius, center.lat))

\* benchmark.js, measured round
BenchmarkRound ==
    BuildAndSearch("benchmark.round", ProjectedRadius(geoRadius, center.lat))

\* route.ts, POST
RoutePost ==
    BuildAndSearch("route.POST", ProjectedRadius(geoRadius, center.lat))

\* CompareMaps, runBothSearches: returns early without points
RunBothSearches ==
    /\ Len(points) # 0
    /\ BuildAndTrace("CompareMaps.runBothSearches",
                     ProjectedRadius(geoRadius, center.lat))

\* CompareMaps, runFastSearch: returns early without points
RunFastSearch ==
    /\ Len(points) # 0
    /\ BuildAndTrace("CompareMaps.runFastSearch",
                     ProjectedRadius(geoRadius, center.lat))

\* KDTreeSearch and LinearSearch: the tree is built in a useMemo over the points
BuildMemo ==
    /\ Build
    /\ UNCHANGED siteVars

\* KDTreeSearch, Play onClick: searches the memoised tree when there is one
PlayKDTreeSearch ==
    /\ site \in {"none", "KDTreeSearch.Play"}
    /\ Len(roots) = 1
    /\ roots[1] # Null
    /\ LET centerMerc == lonLatToMercator(center)
           rProj == ProjectedRadius(geoRadius, center.lat)
           info == rangeSearchTrace(heap, roots[1], centerMerc, rProj)
       IN  /\ query' = [tree |-> 1, target |-> centerMerc, radius |-> rProj]
           /\ trace' = info
           /\ results' = info.results
           /\ heap' = HeapAfterSearch(heap, Visited(heap, roots[1], centerMerc, rProj))
    /\ site' = "KDTreeSearch.Play"
    /\ UNCHANGED <<points, roots, prev, calls, geoRadius, center>>
    /\ UNCHANGED <<linVars, fetchVars, benchVars, playVars>>

\* LinearSearch, filteredRestaurants: rangeSearch(kdRoot, centerMerc, radiusMeters)
FilteredRestaurants ==
    /\ site \in {"none", "LinearSearch.filteredRestaurants"}
    /\ Len(roots) = 1
    /\ roots[1] # Null
    /\ LET centerMerc == lonLatToMercator(center)
       IN  /\ query' = [tree |-> 1, target |-> centerMerc, radius |-> geoRadius]
           /\ results' = rangeSearch(heap, roots[1], centerMerc, geoRadius, 0,
                                     DefaultResults(results))
           /\ heap' = HeapAfterSearch(heap, Visited(heap, roots[1], centerMerc, geoRadius))
    /\ trace' = NoTrace
    /\ site' = "LinearSearch.filteredRestaurants"
    /\ UNCHANGED <<points, roots, prev, calls, geoRadius, center>>
    /\ UNCHANGED <<linVars, fetchVars, benchVars, playVars>>

NextSites ==
    \/ BenchmarkWarmup
    \/ BenchmarkRound
    \/ RoutePost
    \/ RunBothSearches
    \/ RunFastSearch
    \/ BuildMemo
    \/ PlayKDTreeSearch
    \/ FilteredRestaurants

SpecSites == InitSites /\ [][NextSites]_vars

(***************************************************************************)
(* The traced search beside the plain one: a caller hands the same tree,   *)
(* target and radius to rangeSearch and to rangeSearchTrace.               *)
(***************************************************************************)
QueryBoth ==
    /\ Len(roots) = 1
    /\ calls = 0
    /\ \E target \in Targets, radiusMeters \in Radii :
        /\ query' = [tree |-> 1, target |-> target, radius |-> radiusMeters]
        /\ results' = rangeSearch(heap, roots[1], target, radiusMeters, 0,
                                  DefaultResults(results))
        /\ trace' = rangeSearchTrace(heap, roots[1], target, radiusMeters)
    /\ prev' = results
    /\ calls' = 1
    /\ UNCHANGED <<points, heap, roots>>
    /\ UNCHANGED <<site, geoRadius, center>>
    /\ UNCHANGED <<linVars, fetchVars, benchVars, playVars>>

NextTrace == Build \/ QueryBoth

SpecTrace == Init /\ [][NextTrace]_vars

(***************************************************************************)
(* The Overpass request of the map components and of the API route.  The   *)
(* request is rejected (network error) or comes back with a status, a      *)
(* content type and a body: none, text that is not JSON, or a JSON object  *)
(* with or without an `elements` list.                                     *)
(***************************************************************************)
\* An element is a node or a way; a node may lack its id or its coordinates
ElementKinds ==
    {[type |-> "node", id |-> 1, pos |-> 1],
     [type |-> "node", id |-> Undefined, pos |-> 1],
     [type |-> "node", id |-> 1, pos |-> Undefined],
     [type |-> "way", id |-> 1, pos |-> Undefined]}

ElementLists == UNION {[1..n -> ElementKinds] : n \in 0..MaxElements}

Responses ==
    {[rejects |-> TRUE, ok |-> FALSE, jsonType |-> FALSE, body |-> "none",
      elements |-> <<>>]}
    \cup [rejects : {FALSE}, ok : BOOLEAN, jsonType : BOOLEAN,
          body : {"none", "text", "object"}, elements : {<<>>}]
    \cup [rejects : {FALSE}, ok : BOOLEAN, jsonType : BOOLEAN,
          body : {"elements"}, elements : ElementLists]

\* res.json() resolves: the body is JSON text
Parses(res) == res.body \in {"object", "elements"}

\* data.elements || []
ElementsOf(res) == IF res.body = "elements" THEN res.elements ELSE <<>>

\* .map((e) => ({ id: e.id, lat: e.lat, lon: e.lon, ... }))
AsNode(e) == [id |-> e.id, pos |-> e.pos]

MapNodes(es) == [i \in 1..Len(es) |-> AsNode(es[i])]

\* The filter of CompareMaps, KDTreeSearch and the first LinearSearch
WithIdAndPosition(e) == e.type = "node" /\ e.id # Undefined /\ e.pos # Undefined

\* The filter of the second LinearSearch and of the API route
WithPosition(e) == e.type = "node" /\ e.pos # Undefined

\* fetchRestaurants of a component: what it hands to setRestaurants and to
\* console.error.  The status and the content type are not looked at; needsId
\* tells whether the component's filter asks for an id.
ComponentFetch(res, needsId) ==
    IF res.rejects THEN [restaurants |-> <<>>, logged |-> <<"network">>]
    ELSE IF ~Parses(res) THEN [restaurants |-> <<>>, logged |-> <<"parse">>]
    ELSE [restaurants |->
              MapNodes(SelectSeq(ElementsOf(res),
                                 LAMBDA e : IF needsId THEN WithIdAndPosition(e)
                                            ELSE WithPosition(e))),
          logged |-> <<>>]

\* A list of restaurants from an earlier fetch
Earlier == <<[id |-> 7, pos |-> 1]>>

InitFetch ==
    /\ KdIdle
    /\ LinIdle
    /\ SitesIdle
    /\ BenchIdle
    /\ PlayIdle
    /\ overpass \in Responses
    /\ component = "none"
    /\ restaurants \in {<<>>, Earlier}
    /\ benchError = Undefined
    /\ consoleErrors = <<>>
    /\ reply = NoReply

FetchIn(name, needsId) ==
    /\ component = "none"
    /\ component' = name
    /\ restaurants' = ComponentFetch(overpass, needsId).restaurants
    /\ consoleErrors' = consoleErrors \o ComponentFetch(overpass, needsId).logged
    /\ UNCHANGED <<overpass, benchError, reply>>
    /\ UNCHANGED <<kdVars, linVars, siteVars, benchVars, playVars>>

\* CompareMaps: fetchRestaurants
FetchCompareMaps == FetchIn("CompareMaps", TRUE)

\* KDTreeSearch: fetchRestaurants
FetchKDTreeSearch == FetchIn("KDTreeSearch", TRUE)

\* LinearSearch: fetchRestaurants
FetchLinearSearch == FetchIn("LinearSearch", TRUE)

\* LinearSearch, second component: fetchRestaurants
FetchLinearSearchTree == FetchIn("LinearSearch.tree", FALSE)

NextFetch ==
    \/ FetchCompareMaps
    \/ FetchKDTreeSearch
    \/ FetchLinearSearch
    \/ FetchLinearSearchTree

SpecFetch == InitFetch /\ [][NextFetch]_vars

\* res.text() after res.json() has read the body: a body that was read cannot
\* be read again, the promise rejects
TextRejects(res, bodyUsed) == bodyUsed /\ res.body # "none"

\* fetchRestaurants of the API route: the nodes, or the error it throws
RouteFetch(res) ==
    IF res.rejects THEN [threw |-> TRUE, error |-> "network", nodes |-> <<>>]
    ELSE IF ~res.ok THEN [threw |-> TRUE, error |-> "status", nodes |-> <<>>]
    ELSE IF ~res.jsonType THEN [threw |-> TRUE, error |-> "content-type", nodes |-> <<>>]
    ELSE IF ~Parses(res)
         THEN IF TextRejects(res, TRUE)
              THEN [threw |-> TRUE, error |-> "body already read", nodes |-> <<>>]
              ELSE [threw |-> TRUE, error |-> "parse", nodes |-> <<>>]
    ELSE [threw |-> FALSE, error |-> "",
          nodes |-> MapNodes(SelectSeq(ElementsOf(res), WithPosition))]

\* The timings are taken, their values are not modelled
Measured == "measured"

\* POST: the JSON body and the status of the response
POST(res) ==
    LET fetched == RouteFetch(res)
    IN  IF fetched.threw
        THEN [status |-> 500, body |-> [error |-> fetched.error]]
        ELSE [status |-> 200,
              body |-> [count |-> Len(fetched.nodes), buildMs |-> Measured,
                        kdMs |-> Measured, linMs |-> Measured,
                        linVisited |-> Len(fetched.nodes)]]

InitRoute ==
    /\ KdIdle
    /\ LinIdle
    /\ SitesIdle
    /\ BenchIdle
    /\ PlayIdle
    /\ overpass \in Responses
    /\ component = "none"
    /\ restaurants = <<>>
    /\ benchError = Undefined
    /\ consoleErrors = <<>>
    /\ reply = NoReply

\* The API route answers one request
Post ==
    /\ reply = NoReply
    /\ reply' = POST(overpass)
    /\ UNCHANGED <<overpass, component, restaurants, benchError, consoleErrors>>
    /\ UNCHANGED <<kdVars, linVars, siteVars, benchVars, playVars>>

NextRoute == Post

SpecRoute == InitRoute /\ [][NextRoute]_vars

(***************************************************************************)
(* The measurement of the API route, once fetchRestaurants has returned:   *)
(* the tree search, the count of visited nodes, the linear scan and the    *)
(* mapping of the matches back to the ids of the fetched records.          *)
(***************************************************************************)
\* The records fetchRestaurants returns: { id, lat, lon }.  Two records may
\* share an id or a position, and an id may be 0.
RouteIds == {0, 1, 2}
RouteRecords == [id : RouteIds, lat : Lats, lon : Coord]

\* Lists are taken in one order of the positions; the ids are free
RouteLists ==
    {s \in UNION {[1..n -> RouteRecords] : n \in 0..MaxElements} :
        \A i \in 1..(Len(s) - 1) :
            Key(lonLatToMercator(s[i])) >= Key(lonLatToMercator(s[i + 1]))}

\* Centers on the grid of the records and to the east of it
RouteCenters == [lat : Lats, lon : {0, MaxCoord + 2}]

\* The geodesic distance of each record from the center: at most every
\* radius, or beyond every radius; records at one position are equally far
RouteTables(rs) ==
    {t \in [1..Len(rs) -> {0, MaxMeters + 1}] :
        \A i, j \in 1..Len(rs) :
            (rs[i].lat = rs[j].lat /\ rs[i].lon = rs[j].lon) => t[i] = t[j]}

\* projected = latlons.map(([lat, lon]) => lonLatToMercator([lon, lat]))
ProjectedList(rs) == [i \in 1..Len(rs) |-> [id |-> i, c |-> lonLatToMercator(rs[i])]]

\* Variant: the second call goes to the main child again
RouteOtherIsMain(node, diff) == IF diff < 0 THEN node.left ELSE node.right

\* const other = diff < 0 ? node.right : node.left
RouteOther(node, diff) == IF diff < 0 THEN node.right ELSE node.left

\* The dfs that counts kdVisited
RECURSIVE kdVisitedDfs(_, _, _, _, _, _)
kdVisitedDfs(h, node, depth, centerMerc, rProj, kdVisited) ==
    IF node = Null THEN kdVisited
    ELSE
        LET n == h[node]
            k == Len(centerMerc)
            axis == depth % k
            diff == centerMerc[axis + 1] - At(n.point, axis)
            main == IF diff < 0 THEN n.left ELSE n.right
            other == RouteOther(n, diff)
            visited1 == kdVisitedDfs(h, main, depth + 1, centerMerc, rProj, kdVisited + 1)
        IN  IF CrossesPlane(diff, rProj)
            THEN kdVisitedDfs(h, other, depth + 1, centerMerc, rProj, visited1)
            ELSE visited1

\* The indices the linear loop pushes to linIdx
RECURSIVE LinIdx(_, _, _, _)
LinIdx(table, radiusMeters, n, i) ==
    IF i > n THEN <<>>
    ELSE (IF haversineMeters(table, i) * radiusMeters.den <= radiusMeters.num
          THEN <<i>> ELSE <<>>) \o LinIdx(table, radiusMeters, n, i + 1)

\* restaurants.find((r) => the projection of r is the node's point)?.id
FoundId(rs, point) ==
    LET hits == {i \in 1..Len(rs) : lonLatToMercator(rs[i]) = point.c}
    IN  IF hits = {} THEN Undefined
        ELSE rs[CHOOSE i \in hits : \A j \in hits : i <= j].id

\* Boolean(id): undefined and 0 are falsy
Truthy(id) == id # Undefined /\ id # 0

\* new Set(kdRes.map(..find..?.id).filter(Boolean))
KdInsideIds(h, kdRes, rs) ==
    {id \in {FoundId(rs, h[kdRes[j]].point) : j \in 1..Len(kdRes)} : Truthy(id)}

\* new Set(linIdx.map((i) => restaurants[i].id))
LinInsideIds(linIdx, rs) == {rs[linIdx[j]].id : j \in 1..Len(linIdx)}

\* Array.from of a Set built from the sequence ids: first occurrences, in order
RECURSIVE InsertionOrder(_, _)
InsertionOrder(ids, seen) ==
    IF ids = <<>> THEN <<>>
    ELSE IF ids[1] \in seen THEN InsertionOrder(Tail(ids), seen)
    ELSE <<ids[1]>> \o InsertionOrder(Tail(ids), seen \cup {ids[1]})

\* POST from the build on, for the records rs: the tree, the matches of the
\* timed search and the JSON body of the response
Measure(rs, c, radiusMeters, table) ==
    LET projected == ProjectedList(rs)
        b == buildKDTree(<<>>, projected, 0)
        centerMerc == lonLatToMercator(c)
        rProj == ProjectedRadius(radiusMeters, c.lat)
        kdRes == rangeSearch(b.heap, b.node, centerMerc, rProj, 0, DefaultResults(<<>>))
        kdVisited == kdVisitedDfs(b.heap, b.node, 0, centerMerc, rProj, 0)
        linIdx == LinIdx(table, radiusMeters, Len(rs), 1)
        kdInsideIds == KdInsideIds(b.heap, kdRes, rs)
        linInsideIds == LinInsideIds(linIdx, rs)
    IN  [heap |-> b.heap, root |-> b.node, projected |-> b.input,
         target |-> centerMerc, rProj |-> rProj, kdRes |-> kdRes,
         body |-> [count |-> Len(rs), buildMs |-> Measured, kdMs |-> Measured,
                   linMs |-> Measured,
                   inside |-> InsertionOrder([j \in 1..Len(linIdx) |-> rs[linIdx[j]].id], {}),
                   outside |-> LET out == SelectSeq(rs, LAMBDA r : r.id \notin linInsideIds)
                               IN  [j \in 1..Len(out) |-> out[j].id],
                   kdInsideCount |-> Cardinality(kdInsideIds),
                   linInsideCount |-> Cardinality(linInsideIds),
                   kdVisited |-> kdVisited,
                   linVisited |-> Len(rs)]]

InitMeasure ==
    /\ KdIdle
    /\ BenchIdle
    /\ PlayIdle
    /\ latlons = <<>>
    /\ linRadius = 0
    /\ linOut = NoScan
    /\ overpass = NoResponse
    /\ component = "none"
    /\ benchError = Undefined
    /\ consoleErrors = <<>>
    /\ reply = NoReply
    /\ restaurants \in RouteLists
    /\ hav \in RouteTables(restaurants)
    /\ site = "none"
    /\ trace = NoTrace
    /\ center \in RouteCenters
    /\ geoRadius \in GeoRadii

\* The API route answers one request whose fetch succeeded
PostMeasure ==
    /\ reply = NoReply
    /\ \E m \in {Measure(restaurants, center, geoRadius, hav)} :
          /\ points' = m.projected
          /\ heap' = m.heap
          /\ roots' = <<m.root>>
          /\ query' = [tree |-> 1, target |-> m.target, radius |-> m.rProj]
          /\ results' = m.kdRes
          /\ reply' = [status |-> 200, body |-> m.body]
    /\ UNCHANGED <<prev, calls>>
    /\ UNCHANGED <<overpass, component, restaurants, benchError, consoleErrors>>
    /\ UNCHANGED <<linVars, siteVars, benchVars, playVars>>

NextMeasure == PostMeasure

SpecMeasure == InitMeasure /\ [][NextMeasure]_vars

(***************************************************************************)
(* The benchmark script: two warm-up rounds, then `iterations` measured    *)
(* rounds, then the statistics of the three series.  Samples are whole     *)
(* numbers of nanoseconds; the arithmetic of stats is exact, with the      *)
(* square root kept as a root.                                             *)
(***************************************************************************)
Samples == 0..MaxSample

BenchInputs == {<<>>, ScenarioPoints}

RECURSIVE Sum(_)
\* nums.reduce((a, b) => a + b, 0)
Sum(nums) == IF Len(nums) = 0 THEN 0 ELSE Sum(SubSeq(nums, 1, Len(nums) - 1)) + nums[Len(nums)]

\* a + x on fractions
RatAdd(a, x) == Rat(a.num * x.den + x.num * a.den, a.den * x.den)

\* (b - mean) * (b - mean)
DevSq(b, mean) ==
    Rat((b * mean.den - mean.num) * (b * mean.den - mean.num), mean.den * mean.den)

RECURSIVE SumDevSq(_, _)
\* nums.reduce((a, b) => a + (b - mean) * (b - mean), 0)
SumDevSq(nums, mean) ==
    IF Len(nums) = 0 THEN Rat(0, 1)
    ELSE RatAdd(SumDevSq(SubSeq(nums, 1, Len(nums) - 1), mean), DevSq(nums[Len(nums)], mean))

\* Variant: the sample variance
VarianceOfSample(sq, n) == Rat(sq.num, sq.den * (n - 1))

\* sq / n
Variance(sq, n) == Rat(sq.num, sq.den * n)

\* Math.sqrt(x), kept as the root of x
Sqrt(x) == [sqrtOf |-> x]

\* stats(nsArray); a fraction with denominator 0 is NaN
stats(nsArray) ==
    LET n == Len(nsArray)
        sum == Sum(nsArray)
        mean == Rat(sum, n)
        sq == SumDevSq(nsArray, mean)
        std == Sqrt(Variance(sq, n))
    IN  [mean |-> mean, std |-> std, n |-> n]

\* Variant: the warm-up loop records a sample
WarmupRecorded(series) == Append(series, 0)

\* A series after a round of the warm-up loop, which takes no timestamps and
\* pushes nothing
AfterWarmup(series) == series

InitBench ==
    /\ points \in {WithIds(i) : i \in BenchInputs}
    /\ heap = <<>>
    /\ roots = <<>>
    /\ query = NoQuery
    /\ results = <<>>
    /\ prev = <<>>
    /\ calls = 0
    /\ LinIdle
    /\ SitesIdle
    /\ FetchIdle
    /\ PlayIdle
    /\ iterations \in 0..MaxIterations
    /\ warmupsDone = 0
    /\ roundsDone = 0
    /\ buildTimes = <<>>
    /\ kdSearchTimes = <<>>
    /\ linSearchTimes = <<>>
    /\ report = NoReport

\* One round of the warm-up loop: build, tree search, linear scan; the
\* searches return arrays that are dropped
WarmupRound ==
    /\ warmupsDone < Warmups
    /\ \E built \in {buildKDTree(heap, points, 0)} :
          /\ heap' = built.heap
          /\ roots' = Append(roots, built.node)
          /\ points' = built.input
    /\ warmupsDone' = warmupsDone + 1
    /\ buildTimes' = AfterWarmup(buildTimes)
    /\ kdSearchTimes' = AfterWarmup(kdSearchTimes)
    /\ linSearchTimes' = AfterWarmup(linSearchTimes)
    /\ UNCHANGED <<iterations, roundsDone, report>>
    /\ UNCHANGED <<query, results, prev, calls>>
    /\ UNCHANGED <<linVars, siteVars, fetchVars, playVars>>

\* One round of the measured loop: each of the three steps is timed and its
\* sample pushed
MeasuredRound ==
    /\ warmupsDone = Warmups
    /\ roundsDone < iterations
    /\ report = NoReport
    /\ \E built \in {buildKDTree(heap, points, 0)} :
          /\ heap' = built.heap
          /\ roots' = Append(roots, built.node)
          /\ points' = built.input
    /\ \E tBuild \in Samples, tKd \in Samples, tLin \in Samples :
          /\ buildTimes' = Append(buildTimes, tBuild)
          /\ kdSearchTimes' = Append(kdSearchTimes, tKd)
          /\ linSearchTimes' = Append(linSearchTimes, tLin)
    /\ roundsDone' = roundsDone + 1
    /\ UNCHANGED <<iterations, warmupsDone, report>>
    /\ UNCHANGED <<query, results, prev, calls>>
    /\ UNCHANGED <<linVars, siteVars, fetchVars, playVars>>

\* After the measured loop: b, k and l
Report ==
    /\ warmupsDone = Warmups
    /\ ~(roundsDone < iterations)
    /\ report = NoReport
    /\ report' = [b |-> stats(buildTimes), k |-> stats(kdSearchTimes),
                  l |-> stats(linSearchTimes)]
    /\ UNCHANGED <<iterations, warmupsDone, roundsDone, buildTimes, kdSearchTimes,
                   linSearchTimes>>
    /\ UNCHANGED <<kdVars, linVars, siteVars, fetchVars, playVars>>

NextBench == WarmupRound \/ MeasuredRound \/ Report

SpecBench == InitBench /\ [][NextBench]_vars

(***************************************************************************)
(* The map components CompareMaps, KDTreeSearch and LinearSearch: the      *)
(* search infos, the playback timers and the effect that resets them.  A   *)
(* handler runs to its end, or to its await, together with the render and  *)
(* the effects that follow it.  KDTreeSearch keeps its searchInfo,         *)
(* isPlaying and stepIdx in the kd fields of `ui`, LinearSearch in the lin *)
(* fields.  Time stamps are null or set; their values are not modelled.    *)
(***************************************************************************)
NullTime == "null"
SomeTime == "time"
NotMeasured == "0"

\* The restaurants of a component: n records along the equator, and markers
\* on the first record and to the east of the last
UiList(n) == [i \in 1..n |-> [id |-> i, lat |-> 0, lon |-> i - 1]]
UiLists == {UiList(n) : n \in 0..MaxElements}
UiCenters == [lat : {0}, lon : {0, MaxCoord + 2}]

\* haversineMeters from the marker to a record of the grid: along a parallel
\* the distance grows with the difference in longitude
UiMeters(c, r) == IF c.lat = r.lat THEN Abs(c.lon - r.lon) ELSE MaxMeters + 1

\* { steps: [], resultsIdx: [], visited: 0, searchMs: 0 }
NoLinInfo == [steps |-> <<>>, resultsIdx |-> <<>>, visited |-> 0]

\* linearRangeSearchTraceGeo(projected, latlons, [markerPos[0], markerPos[1]], radiusMeters)
LinInfo(rs, markerPos, radiusMeters) ==
    LET out == linearRangeSearchTraceGeo([i \in 1..Len(rs) |-> lonLatToMercator(rs[i])],
                                         [i \in 1..Len(rs) |-> i],
                                         [i \in 1..Len(rs) |-> UiMeters(markerPos, rs[i])],
                                         radiusMeters.num \div radiusMeters.den)
    IN  [steps |-> out.steps, resultsIdx |-> out.resIdx, visited |-> out.visited]

\* root = buildKDTree(projected); rangeSearchTrace(root, centerMerc, rProj)
KdInfo(rs, markerPos, radiusMeters) ==
    LET b == buildKDTree(<<>>, ProjectedList(rs), 0)
    IN  rangeSearchTrace(b.heap, b.node, lonLatToMercator(markerPos),
                         ProjectedRadius(radiusMeters, markerPos.lat))

\* The state of a component when it mounts
Mounted ==
    [mounted |-> TRUE,
     linSearchInfo |-> NoLinInfo, linIsPlaying |-> FALSE, linStepIdx |-> 0,
     kdSearchInfo |-> NoTrace, kdBuildMs |-> NotMeasured,
     kdIsPlaying |-> FALSE, kdStepIdx |-> 0,
     linAnimStartTime |-> NullTime, linAnimDurationMs |-> NullTime,
     kdAnimStartTime |-> NullTime, kdAnimDurationMs |-> NullTime]

\* Variant: the index is advanced without looking at the length
AdvanceStepUnchecked(i, length) == i + 1

\* The updater handed to setStepIdx by a tick: the next index
AdvanceStep(i, length) == IF i + 1 >= length THEN length - 1 ELSE i + 1

\* The updater calls setIsPlaying(false)
LastTick(i, length) == i + 1 >= length

\* Math.max(0, info.steps.length - 1)
FinalIdx(steps) == IF Len(steps) - 1 > 0 THEN Len(steps) - 1 ELSE 0

\* CompareMaps: the body of the linear playback effect, before its timer
LinEffect(u) ==
    IF ~u.linIsPlaying
    THEN IF u.linAnimStartTime # NullTime /\ u.linStepIdx >= Len(u.linSearchInfo.steps) - 1
         THEN [u EXCEPT !.linAnimDurationMs = SomeTime]
         ELSE u
    ELSE IF Len(u.linSearchInfo.steps) = 0 THEN u
    ELSE IF u.linStepIdx = 0 /\ u.linAnimStartTime = NullTime
         THEN [u EXCEPT !.linAnimStartTime = SomeTime, !.linAnimDurationMs = NullTime]
         ELSE u

\* CompareMaps: the body of the tree playback effect, before its timer
KdEffect(u) ==
    IF ~u.kdIsPlaying
    THEN IF u.kdAnimStartTime # NullTime /\ u.kdStepIdx >= Len(u.kdSearchInfo.steps) - 1
         THEN [u EXCEPT !.kdAnimDurationMs = SomeTime]
         ELSE u
    ELSE IF Len(u.kdSearchInfo.steps) = 0 THEN u
    ELSE IF u.kdStepIdx = 0 /\ u.kdAnimStartTime = NullTime
         THEN [u EXCEPT !.kdAnimStartTime = SomeTime, !.kdAnimDurationMs = NullTime]
         ELSE u

\* The playback effects that run after a render; KDTreeSearch and
\* LinearSearch have no animation times
AfterRender(comp, u) == IF comp = "CompareMaps" THEN KdEffect(LinEffect(u)) ELSE u

\* The effect on [restaurants, markerPos, radiusMeters]
ResetEffect(u) ==
    [u EXCEPT !.linIsPlaying = FALSE, !.kdIsPlaying = FALSE,
              !.linStepIdx = 0, !.kdStepIdx = 0,
              !.linAnimStartTime = NullTime, !.linAnimDurationMs = NullTime,
              !.kdAnimStartTime = NullTime, !.kdAnimDurationMs = NullTime,
              !.linSearchInfo = NoLinInfo, !.kdSearchInfo = NoTrace]

InitPlay ==
    /\ KdIdle
    /\ LinIdle
    /\ BenchIdle
    /\ site = "none"
    /\ trace = NoTrace
    /\ overpass = NoResponse
    /\ benchError = Undefined
    /\ consoleErrors = <<>>
    /\ reply = NoReply
    /\ component \in {"CompareMaps", "KDTreeSearch", "LinearSearch"}
    /\ restaurants \in UiLists
    /\ center \in UiCenters
    /\ geoRadius \in GeoRadii
    /\ ui = Mounted
    /\ awaiting = <<>>
    /\ inputsLeft = MaxInputs

\* What no handler of a map component touches
PlayFrame ==
    /\ UNCHANGED <<kdVars, linVars, benchVars>>
    /\ UNCHANGED <<site, trace, overpass, component, benchError, consoleErrors, reply>>

\* A user input or the result of a fetch arrives
Input ==
    /\ inputsLeft > 0
    /\ inputsLeft' = inputsLeft - 1

\* CompareMaps, Start: the linear playback is resumed
StartResumesLinear ==
    /\ component = "CompareMaps"
    /\ Input
    /\ ~ui.linIsPlaying /\ ui.linStepIdx < Len(ui.linSearchInfo.steps) - 1
    /\ ui' = AfterRender(component,
                 [ui EXCEPT !.linIsPlaying = TRUE, !.linAnimStartTime = SomeTime,
                            !.linAnimDurationMs = NullTime])
    /\ UNCHANGED <<restaurants, center, geoRadius, awaiting>>
    /\ PlayFrame

\* CompareMaps, Start: the tree playback is resumed
StartResumesTree ==
    /\ component = "CompareMaps"
    /\ Input
    /\ ~(~ui.linIsPlaying /\ ui.linStepIdx < Len(ui.linSearchInfo.steps) - 1)
    /\ ~ui.kdIsPlaying /\ ui.kdStepIdx < Len(ui.kdSearchInfo.steps) - 1
    /\ ui' = AfterRender(component,
                 [ui EXCEPT !.kdIsPlaying = TRUE, !.kdAnimStartTime = SomeTime,
                            !.kdAnimDurationMs = NullTime])
    /\ UNCHANGED <<restaurants, center, geoRadius, awaiting>>
    /\ PlayFrame

\* CompareMaps, Start: runBothSearches up to its await.  The call keeps the
\* projected, markerPos and radiusMeters of the render it was made in.
RunBothSearchesCalled ==
    /\ component = "CompareMaps"
    /\ Input
    /\ ~(~ui.linIsPlaying /\ ui.linStepIdx < Len(ui.linSearchInfo.steps) - 1)
    /\ ~(~ui.kdIsPlaying /\ ui.kdStepIdx < Len(ui.kdSearchInfo.steps) - 1)
    /\ IF Len(restaurants) = 0
       THEN UNCHANGED <<ui, awaiting>>
       ELSE /\ ui' = AfterRender(component,
                         [ui EXCEPT !.linAnimStartTime = NullTime,
                                    !.linAnimDurationMs = NullTime,
                                    !.kdAnimStartTime = NullTime,
                                    !.kdAnimDurationMs = NullTime,
                                    !.linSearchInfo = LinInfo(restaurants, center, geoRadius),
                                    !.linStepIdx = 0])
            /\ awaiting' = Append(awaiting, [restaurants |-> restaurants,
                                             markerPos |-> center,
                                             radiusMeters |-> geoRadius])
    /\ UNCHANGED <<restaurants, center, geoRadius>>
    /\ PlayFrame

\* CompareMaps, runBothSearches after its await
RunBothSearchesResumed ==
    /\ awaiting # <<>>
    /\ \E run \in {Head(awaiting)} :
          ui' = AfterRender(component,
                    [ui EXCEPT !.kdBuildMs = Measured,
                               !.kdSearchInfo = KdInfo(run.restaurants, run.markerPos,
                                                       run.radiusMeters),
                               !.kdStepIdx = 0,
                               !.linIsPlaying = TRUE,
                               !.kdIsPlaying = TRUE])
    /\ awaiting' = Tail(awaiting)
    /\ UNCHANGED <<restaurants, center, geoRadius, inputsLeft>>
    /\ PlayFrame

\* CompareMaps, Skip visualization: runFastSearch
SkipVisualization ==
    /\ component = "CompareMaps"
    /\ Input
    /\ IF Len(restaurants) = 0
       THEN UNCHANGED ui
       ELSE \E linInfo \in {LinInfo(restaurants, center, geoRadius)},
               kdInfo \in {KdInfo(restaurants, center, geoRadius)} :
              ui' = AfterRender(component,
                        [ui EXCEPT !.linIsPlaying = FALSE, !.kdIsPlaying = FALSE,
                                   !.linAnimStartTime = NullTime,
                                   !.kdAnimStartTime = NullTime,
                                   !.linSearchInfo = linInfo,
                                   !.linStepIdx = FinalIdx(linInfo.steps),
                                   !.kdBuildMs = Measured,
                                   !.kdSearchInfo = kdInfo,
                                   !.kdStepIdx = FinalIdx(kdInfo.steps),
                                   !.linAnimDurationMs = SomeTime,
                                   !.kdAnimDurationMs = SomeTime])
    /\ UNCHANGED <<restaurants, center, geoRadius, awaiting>>
    /\ PlayFrame

\* CompareMaps, Pause
Pause ==
    /\ component = "CompareMaps"
    /\ Input
    /\ ui' = AfterRender(component,
                 [ui EXCEPT !.linIsPlaying = FALSE, !.kdIsPlaying = FALSE,
                            !.linAnimDurationMs =
                                IF ui.linIsPlaying /\ ui.linAnimStartTime # NullTime
                                THEN SomeTime ELSE @,
                            !.kdAnimDurationMs =
                                IF ui.kdIsPlaying /\ ui.kdAnimStartTime # NullTime
                                THEN SomeTime ELSE @])
    /\ UNCHANGED <<restaurants, center, geoRadius, awaiting>>
    /\ PlayFrame

\* CompareMaps, Stop
Stop ==
    /\ component = "CompareMaps"
    /\ Input
    /\ ui' = AfterRender(component,
                 [ui EXCEPT !.linIsPlaying = FALSE, !.kdIsPlaying = FALSE,
                            !.linStepIdx = 0, !.kdStepIdx = 0,
                            !.linAnimStartTime = NullTime, !.kdAnimStartTime = NullTime])
    /\ UNCHANGED <<restaurants, center, geoRadius, awaiting>>
    /\ PlayFrame

\* KDTreeSearch, Play / Pause: enabled when there is a tree
TogglePlayTree ==
    /\ component = "KDTreeSearch"
    /\ Input
    /\ Len(restaurants) # 0
    /\ ui' = IF ~ui.kdIsPlaying
             THEN [ui EXCEPT !.kdSearchInfo = KdInfo(restaurants, center, geoRadius),
                             !.kdStepIdx = 0, !.kdIsPlaying = TRUE]
             ELSE [ui EXCEPT !.kdIsPlaying = FALSE]
    /\ UNCHANGED <<restaurants, center, geoRadius, awaiting>>
    /\ PlayFrame

\* LinearSearch, Play / Pause: enabled when there are points
TogglePlayLinear ==
    /\ component = "LinearSearch"
    /\ Input
    /\ Len(restaurants) # 0
    /\ ui' = IF ~ui.linIsPlaying
             THEN [ui EXCEPT !.linSearchInfo = LinInfo(restaurants, center, geoRadius),
                             !.linStepIdx = 0, !.linIsPlaying = TRUE]
             ELSE [ui EXCEPT !.linIsPlaying = FALSE]
    /\ UNCHANGED <<restaurants, center, geoRadius, awaiting>>
    /\ PlayFrame

\* KDTreeSearch and LinearSearch, Reset
ResetButton ==
    /\ component \in {"KDTreeSearch", "LinearSearch"}
    /\ Input
    /\ ui' = [ui EXCEPT !.linIsPlaying = FALSE, !.kdIsPlaying = FALSE,
                        !.linStepIdx = 0, !.kdStepIdx = 0]
    /\ UNCHANGED <<restaurants, center, geoRadius, awaiting>>
    /\ PlayFrame

\* setRestaurants with the result of a fetch, and the reset effect
RestaurantsChange ==
    /\ Input
    /\ restaurants' \in UiLists \ {restaurants}
    /\ ui' = AfterRender(component, ResetEffect(ui))
    /\ UNCHANGED <<center, geoRadius, awaiting>>
    /\ PlayFrame

\* setMarkerPos from a click on the map or a search, and the reset effect
MarkerChange ==
    /\ Input
    /\ center' \in UiCenters \ {center}
    /\ ui' = AfterRender(component, ResetEffect(ui))
    /\ UNCHANGED <<restaurants, geoRadius, awaiting>>
    /\ PlayFrame

\* setRadiusMeters from the slider, and the reset effect
RadiusChange ==
    /\ Input
    /\ geoRadius' \in GeoRadii \ {geoRadius}
    /\ ui' = AfterRender(component, ResetEffect(ui))
    /\ UNCHANGED <<restaurants, center, awaiting>>
    /\ PlayFrame

\* The timer of the linear playback fires: armed while playing over steps
LinearTick ==
    /\ ui.linIsPlaying
    /\ Len(ui.linSearchInfo.steps) # 0
    /\ \E length \in {Len(ui.linSearchInfo.steps)} :
          ui' = AfterRender(component,
                    [ui EXCEPT !.linStepIdx = AdvanceStep(ui.linStepIdx, length),
                               !.linIsPlaying = ~LastTick(ui.linStepIdx, length)])
    /\ UNCHANGED <<restaurants, center, geoRadius, awaiting, inputsLeft>>
    /\ PlayFrame

\* The timer of the tree playback fires: armed while playing over steps
TreeTick ==
    /\ ui.kdIsPlaying
    /\ Len(ui.kdSearchInfo.steps) # 0
    /\ \E length \in {Len(ui.kdSearchInfo.steps)} :
          ui' = AfterRender(component,
                    [ui EXCEPT !.kdStepIdx = AdvanceStep(ui.kdStepIdx, length),
                               !.kdIsPlaying = ~LastTick(ui.kdStepIdx, length)])
    /\ UNCHANGED <<restaurants, center, geoRadius, awaiting, inputsLeft>>
    /\ PlayFrame

NextPlay ==
    \/ StartResumesLinear
    \/ StartResumesTree
    \/ RunBothSearchesCalled
    \/ RunBothSearchesResumed
    \/ SkipVisualization
    \/ Pause
    \/ Stop
    \/ TogglePlayTree
    \/ TogglePlayLinear
    \/ ResetButton
    \/ RestaurantsChange
    \/ MarkerChange
    \/ RadiusChange
    \/ LinearTick
    \/ TreeTick

SpecPlay == InitPlay /\ [][NextPlay]_vars

\* The 10 ms timeout runBothSearches waits on fires: the oldest waiting
\* call leaves the queue, which only RunBothSearchesResumed does
TimeoutFires == awaiting # <<>> /\ awaiting' = Tail(awaiting)

\* The timers fire: a tick that stays due is delivered, and so is the
\* timeout runBothSearches waits on
SpecPlayFair ==
    /\ SpecPlay
    /\ WF_vars(LinearTick)
    /\ WF_vars(TreeTick)
    /\ WF_awaiting(TimeoutFires)

(***************************************************************************)
(* Properties                                                              *)
(***************************************************************************)
\* The points the tree was built from (none when the argument is absent)
Stored == IF points = Missing THEN <<>> ELSE points

Queried == calls >= 1

\* The nodes of the subtree rooted at n
RECURSIVE Subtree(_, _)
Subtree(h, n) ==
    IF n = Null THEN {}
    ELSE {n} \cup Subtree(h, h[n].left) \cup Subtree(h, h[n].right)

\* The indices of `results` whose node carries the stored point p
Hits(p) == {j \in 1..Len(results) : heap[results[j]].point = p}

\* The root of the queried tree, and the target's offset from its plane
QRoot == heap[roots[query.tree]]
QDiff == query.target[1] - At(QRoot.point, 0)

\* C1: for a radius r >= 0, rangeSearch on the built tree returns exactly the
\* stored points whose squared distance to the target is <= r*r, each once:
\* the same points a check of every stored point accepts.
C1_ExactMatches ==
    (Queried /\ query.radius.num >= 0) =>
        /\ \A j \in 1..Len(results) :
              \E i \in 1..Len(Stored) : heap[results[j]].point = Stored[i]
        /\ \A i \in 1..Len(Stored) :
              Cardinality(Hits(Stored[i]))
                = IF WithinRadius(query.target, Stored[i], query.radius) THEN 1 ELSE 0

\* A query with r >= 0 that skipped the root's non-empty far subtree, matched
\* some stored point and rejected another.
C1_Witness ==
    /\ calls = 1
    /\ query.radius.num >= 0
    /\ roots[1] # Null
    /\ ~CrossesPlane(QDiff, query.radius)
    /\ FarChild(QRoot, QDiff) # Null
    /\ Len(results) >= 1
    /\ Len(results) < Len(Stored)

\* C2: for a radius that is zero or negative, rangeSearch returns no node.
C2_EmptyForNonPositiveRadius ==
    (Queried /\ query.radius.num <= 0) => results = <<>>

RECURSIVE Partitioned(_, _, _)
\* The partition invariant at n (at depth d) and at every node below it
Partitioned(h, n, d) ==
    \/ n = Null
    \/ LET a == d % K
       IN  /\ \A m \in Subtree(h, h[n].left) : At(h[m].point, a) <= At(h[n].point, a)
           /\ \A m \in Subtree(h, h[n].right) : At(h[m].point, a) >= At(h[n].point, a)
           /\ Partitioned(h, h[n].left, d + 1)
           /\ Partitioned(h, h[n].right, d + 1)

\* C3: in every built tree, at every node at depth d and on axis d mod k, the
\* points of the left subtree are <= the node's point and those of the right
\* subtree are >= it.
C3_PartitionInvariant ==
    \A t \in 1..Len(roots) : Partitioned(heap, roots[t], 0)

\* A tree of MaxPoints nodes whose root has two children, with a point in its
\* left subtree tied with it on the split axis.
C3_Witness ==
    /\ Len(roots) = 1
    /\ Len(heap) = MaxPoints
    /\ roots[1] # Null
    /\ heap[roots[1]].right # Null
    /\ \E m \in Subtree(heap, heap[roots[1]].left) :
          At(heap[m].point, 0) = At(heap[roots[1]].point, 0)

\* The squared distance from the target to p is exactly r*r
OnBoundary(target, p, r) ==
    /\ Square(r).part = 0
    /\ distanceSquared(target, p) = Square(r).whole

\* C4: for a radius r >= 0, every stored point whose squared distance to the
\* target equals r*r is in the result.
C4_BoundaryInclusive ==
    (Queried /\ query.radius.num >= 0) =>
        \A i \in 1..Len(Stored) :
            OnBoundary(query.target, Stored[i], query.radius) => Hits(Stored[i]) # {}

\* A query with r > 0 and a stored point at distance exactly r that lies in
\* the root's far subtree.
C4_Witness ==
    /\ calls = 1
    /\ query.radius.num > 0
    /\ roots[1] # Null
    /\ \E m \in Subtree(heap, FarChild(QRoot, QDiff)) :
          /\ OnBoundary(query.target, heap[m].point, query.radius)
          /\ \E j \in 1..Len(results) : results[j] = m

\* C5: no node appears twice in the result of a query.
C5_NoNodeTwice ==
    Queried =>
        \A i, j \in 1..Len(results) : i # j => results[i] # results[j]

\* A query that searched both subtrees of the root and returned three or more
\* nodes.
C5_Witness ==
    /\ calls = 1
    /\ roots[1] # Null
    /\ QRoot.left # Null
    /\ QRoot.right # Null
    /\ CrossesPlane(QDiff, query.radius)
    /\ Len(results) >= 3

\* The positions of the input that hold the coordinates c
Copies(c) == {i \in 1..Len(Stored) : Stored[i].c = c}

\* The distinct result nodes that carry the coordinates c
NodesAt(c) == {results[j] : j \in {x \in 1..Len(results) : heap[results[x]].point.c = c}}

\* C6: when the input holds the same coordinates m times and they lie within
\* radius r >= 0 of the target, the result holds exactly m distinct nodes with
\* those coordinates.
C6_DuplicatesMatched ==
    (Queried /\ query.radius.num >= 0) =>
        \A i \in 1..Len(Stored) :
            WithinRadius(query.target, Stored[i], query.radius) =>
                Cardinality(NodesAt(Stored[i].c)) = Cardinality(Copies(Stored[i].c))

\* A query whose result holds three copies of one coordinate pair while
\* another stored point is out of range.
C6_Witness ==
    /\ calls = 1
    /\ query.radius.num >= 0
    /\ \E i \in 1..Len(Stored) :
          /\ Cardinality(Copies(Stored[i].c)) = 3
          /\ Cardinality(NodesAt(Stored[i].c)) = 3
    /\ Len(results) < Len(Stored)

\* C7: buildKDTree of an empty or absent point sequence returns null, and
\* rangeSearch on a null root returns an empty result.
C7_EmptyInput ==
    /\ (roots # <<>> /\ (points = Missing \/ points = <<>>)) => roots[1] = Null
    /\ (Queried /\ roots[query.tree] = Null) => results = <<>>

\* A query with a positive radius on the null tree of an absent sequence
C7_Witness ==
    /\ points = Missing
    /\ calls = 1
    /\ roots[1] = Null
    /\ query.radius.num > 0
    /\ results = <<>>

\* The coordinates of the result nodes, in result order
ResultCoords == [j \in 1..Len(results) |-> heap[results[j]].point.c]

\* C8: for the points (0,0), (10,0), (0,10) and the target (0,0), radius
\* 10.0001 returns all three points and radius 9.9 returns only (0,0).
C8_Scenario ==
    (Queried /\ points = WithIds(ScenarioPoints) /\ query.target = <<0, 0>>) =>
        /\ query.radius = Rat(100001, 10000) =>
              /\ Len(results) = 3
              /\ {ResultCoords[j] : j \in 1..3} = {<<0, 0>>, <<10, 0>>, <<0, 10>>}
        /\ query.radius = Rat(99, 10) => ResultCoords = << <<0, 0>> >>

\* The scenario queried with radius 10.0001
C8_Witness ==
    /\ calls = 1
    /\ points = WithIds(ScenarioPoints)
    /\ query.target = <<0, 0>>
    /\ query.radius = Rat(100001, 10000)
    /\ Len(results) = 3

\* The stored points of a result, as a set
PointSet(res) == {heap[res[j]].point : j \in 1..Len(res)}

C10_LinearScan ==
    linOut.fn # "none" =>
        LET n == Len(latlons)
            resIdx == linOut.resIdx
        IN  /\ linOut.evals = [i \in 1..n |-> i - 1]
            /\ linOut.fn = "linearRangeSearchTraceGeo" =>
                  /\ linOut.visited = n
                  /\ Len(linOut.steps) = n
            /\ \A a, b \in 1..Len(resIdx) : a < b => resIdx[a] < resIdx[b]
            /\ {resIdx[a] : a \in 1..Len(resIdx)}
                 = {i \in 0..(n - 1) : hav[latlons[i + 1]] <= linRadius}
            /\ n = 0 => resIdx = <<>>

\* A traced scan of MaxPoints points that accepts a point at distance exactly
\* the radius and rejects another point.
C10_Witness ==
    /\ linOut.fn = "linearRangeSearchTraceGeo"
    /\ Len(latlons) = MaxPoints
    /\ \E i \in 1..Len(latlons) : hav[latlons[i]] = linRadius
    /\ Len(linOut.resIdx) >= 1
    /\ Len(linOut.resIdx) < MaxPoints

RECURSIVE InputsKept(_, _)
\* Every call of the recursion leaves the array it was handed as it found it
InputsKept(pts, depth) ==
    /\ buildKDTree(<<>>, pts, depth).input = pts
    /\ \/ NoPoints(pts)
       \/ LET sorted == SortByAxis(pts, depth % Len(pts[1].c))
              mid == Mid(sorted)
          IN  /\ InputsKept(LeftHalf(sorted, mid), depth + 1)
              /\ InputsKept(RightHalf(sorted, mid), depth + 1)

\* C14: buildKDTree leaves the sequence it is handed unchanged: no step changes
\* the caller's points (same length, same elements, same order), and the same
\* holds for the array handed to every call of the recursion.
C14_InputUnchanged ==
    /\ [][points' = points]_vars
    /\ []((Len(roots) = 1 /\ calls = 0) => InputsKept(points, 0))

\* A tree has been built from a full-length input that the sort has to reorder
C14_Witness ==
    /\ Len(roots) = 1
    /\ points # Missing
    /\ Len(points) = MaxPoints
    /\ SortByAxis(points, 0) # points

\* The points stored in the subtree at n
PointsBelow(h, n) == {h[m].point : m \in Subtree(h, n)}

\* The elements of a sorted subset that went into the subtree at n, in order
Kept(sorted, h, n) == SelectSeq(sorted, LAMBDA p : p \in PointsBelow(h, n))

RECURSIVE EvenSplits(_, _, _, _, _)
\* Replays the recursion that built the subtree at n from the subset pts: at
\* every step on an even count, the node's point is the middle element at
\* (count/2 - lower) counted from zero, with count/2 - lower points to its left
\* and count/2 - 1 + lower points to its right.
EvenSplits(h, n, pts, depth, lower) ==
    IF n = Null THEN Len(pts) = 0
    ELSE LET sorted == SortByAxis(pts, depth % K)
             count == Len(sorted)
         IN  /\ (count % 2 = 0) =>
                    /\ h[n].point = sorted[(count \div 2) - lower + 1]
                    /\ Cardinality(Subtree(h, h[n].left)) = (count \div 2) - lower
                    /\ Cardinality(Subtree(h, h[n].right)) = (count \div 2) - 1 + lower
             /\ EvenSplits(h, h[n].left, Kept(sorted, h, h[n].left), depth + 1, lower)
             /\ EvenSplits(h, h[n].right, Kept(sorted, h, h[n].right), depth + 1, lower)

\* The tree as built, before any query
AsBuilt == Len(roots) = 1 /\ calls = 0 /\ points # Missing

\* C19 as stated: on an even count buildKDTree takes the earlier of the two
\* middle elements (the lower median), so the left subtree receives
\* count/2 - 1 points and the right subtree count/2 points.
C19_LowerMedian ==
    AsBuilt => EvenSplits(heap, roots[1], points, 0, 1)

\* C19: on an even count buildKDTree takes the later of the two middle
\* elements (zero-based index count/2 of the subset sorted on the axis), so
\* the left subtree receives count/2 points and the right subtree count/2 - 1.
C19_UpperMedian ==
    AsBuilt => EvenSplits(heap, roots[1], points, 0, 0)

\* A full-size tree with a node over an even count whose two middle elements
\* differ on the node's axis
C19_Witness ==
    /\ AsBuilt
    /\ Len(heap) = MaxPoints
    /\ \E n \in DOMAIN heap :
          /\ Cardinality(Subtree(heap, n)) % 2 = 0
          /\ heap[n].left # Null
          /\ \E m \in Subtree(heap, heap[n].left) :
                /\ Cardinality(Subtree(heap, heap[n].left) \ {m}) =
                       Cardinality(Subtree(heap, heap[n].right))
                /\ At(heap[m].point, heap[n].axis) < At(heap[n].point, heap[n].axis)

\* Left of n strictly below n's point on n's axis, right of n not below it
StrictAt(h, n) ==
    /\ \A m \in Subtree(h, h[n].left) :
          At(h[m].point, h[n].axis) < At(h[n].point, h[n].axis)
    /\ \A m \in Subtree(h, h[n].right) :
          At(h[m].point, h[n].axis) >= At(h[n].point, h[n].axis)

\* C20 as stated: in every built tree, every point in a node's left subtree
\* is strictly less than the node's point on the node's axis, and every point
\* in its right subtree is greater than or equal to it.
C20_StrictSeparation ==
    AsBuilt => \A n \in DOMAIN heap : StrictAt(heap, n)

RECURSIVE StableSeparated(_, _, _)
\* Replays the recursion that built the subtree at n from the subset pts: the
\* left subtree holds what the stable sort on n's axis puts before n's point,
\* the right subtree what it puts after, so neither side is strict.
StableSeparated(h, n, pts) ==
    IF n = Null THEN Len(pts) = 0
    ELSE LET a == h[n].axis
             sorted == SortByAxis(pts, a)
             pos == CHOOSE i \in 1..Len(sorted) : sorted[i] = h[n].point
         IN  /\ PointsBelow(h, h[n].left) = {sorted[i] : i \in 1..(pos - 1)}
             /\ PointsBelow(h, h[n].right) = {sorted[i] : i \in (pos + 1)..Len(sorted)}
             /\ \A p \in PointsBelow(h, h[n].left) : At(p, a) <= At(h[n].point, a)
             /\ \A p \in PointsBelow(h, h[n].right) : At(p, a) >= At(h[n].point, a)
             /\ StableSeparated(h, h[n].left, Kept(sorted, h, h[n].left))
             /\ StableSeparated(h, h[n].right, Kept(sorted, h, h[n].right))

\* C20: in every built tree, every point in a node's left subtree is less than
\* or equal to the node's point on the node's axis (a point tied with it goes
\* left when the stable sort places it before the median), and every point in
\* its right subtree is greater than or equal to it.
C20_StableSeparation ==
    AsBuilt => StableSeparated(heap, roots[1], points)

\* A full-size tree whose root is tied on its axis with a point on either side
C20_Witness ==
    /\ AsBuilt
    /\ Len(heap) = MaxPoints
    /\ roots[1] # Null
    /\ \E m \in Subtree(heap, heap[roots[1]].left) :
          At(heap[m].point, heap[roots[1]].axis) = At(heap[roots[1]].point, heap[roots[1]].axis)
    /\ \E m \in Subtree(heap, heap[roots[1]].right) :
          At(heap[m].point, heap[roots[1]].axis) = At(heap[roots[1]].point, heap[roots[1]].axis)

\* C11: every call site hands the tree search the corrected planar radius
\* radiusMeters / cos(latitude of the center), never radiusMeters itself.
C11_CorrectedRadius ==
    (site # "none") =>
        query.radius.num * (geoRadius.den * Cos(center.lat).num) =
            (geoRadius.num * Cos(center.lat).den) * query.radius.den

\* C15: querying never changes a built tree: after any sequence of rangeSearch
\* and rangeSearchTrace calls every node's point, axis, left and right are
\* what buildKDTree made them.
C15_TreeAsBuilt ==
    (Len(roots) = 1) => heap = buildKDTree(<<>>, points, 0).heap

\* A search has visited every node of a full-size tree and returned them all
C15_Witness ==
    /\ site = "LinearSearch.filteredRestaurants"
    /\ Len(heap) = MaxPoints
    /\ Len(results) = MaxPoints
    /\ Cardinality(Visited(heap, roots[1], query.target, query.radius)) = MaxPoints

\* The request failed: network error, error status or a body that is not JSON
FetchFailed == overpass.rejects \/ ~overpass.ok \/ ~Parses(overpass)

\* A failure is shown in component state: the components' only error state is
\* CompareMaps' benchError
FailureShown == benchError # Undefined

\* C12: a failed fetch in a map component is surfaced as an explicit failure
\* in component state; the fetch never ends with the restaurants replaced by
\* the empty list and no failure indication.
C12_FailureSurfaced ==
    (component # "none" /\ FetchFailed) =>
        /\ FailureShown
        /\ ~(restaurants = <<>> /\ ~FailureShown)

\* The failures of the Overpass request the route tells apart
RouteCauses ==
    (IF ~overpass.ok THEN {"status"} ELSE {})
    \cup (IF ~overpass.jsonType THEN {"content-type"} ELSE {})
    \cup (IF ~Parses(overpass) THEN {"parse"} ELSE {})

\* C13: when the Overpass request comes back with a non-OK status, a non-JSON
\* content type or an unparsable body, POST answers with status 500 and an
\* error field describing the cause, never with a success payload, and never
\* with an error together with timings.
C13_RouteFailure ==
    (reply # NoReply /\ ~overpass.rejects /\ RouteCauses # {}) =>
        /\ reply.status = 500
        /\ DOMAIN reply.body = {"error"}
        /\ reply.body.error \in RouteCauses

\* The roots of the trees built so far are pairwise distinct objects
FreshTrees ==
    \A i \in 1..Len(roots) : \A j \in 1..Len(roots) :
        (i # j /\ roots[i] # Null) => roots[i] # roots[j]

\* C16: exactly two warm-up rounds run first and record no timing; then each
\* measured round builds a fresh tree and appends one sample to each of the
\* three series, so that each series ends with `iterations` samples and stats
\* reports n = iterations.
C16_Rounds ==
    /\ warmupsDone <= Warmups
    /\ (roundsDone > 0 \/ report # NoReport) => warmupsDone = Warmups
    /\ (roundsDone = 0) =>
          (buildTimes = <<>> /\ kdSearchTimes = <<>> /\ linSearchTimes = <<>>)
    /\ Len(buildTimes) = roundsDone
    /\ Len(kdSearchTimes) = roundsDone
    /\ Len(linSearchTimes) = roundsDone
    /\ Len(roots) = warmupsDone + roundsDone
    /\ FreshTrees
    /\ (report # NoReport) =>
          /\ roundsDone = iterations
          /\ Len(buildTimes) = iterations
          /\ Len(kdSearchTimes) = iterations
          /\ Len(linSearchTimes) = iterations
          /\ report.b.n = iterations
          /\ report.k.n = iterations
          /\ report.l.n = iterations

\* The script has reported after the largest number of measured rounds, on a
\* data set with points
C16_Witness ==
    /\ report # NoReport
    /\ iterations = MaxIterations
    /\ roundsDone = MaxIterations
    /\ Len(points) > 0

RECURSIVE SumScaledDevSq(_, _, _)
\* The sum over the samples x of (n * x - sum) squared
SumScaledDevSq(nums, n, sum) ==
    IF Len(nums) = 0 THEN 0
    ELSE SumScaledDevSq(SubSeq(nums, 1, Len(nums) - 1), n, sum)
         + (n * nums[Len(nums)] - sum) * (n * nums[Len(nums)] - sum)

\* r is the population statistics of the non-empty list nums: mean = sum / n,
\* and std * std * n is the sum of the squared deviations from the mean,
\* which is SumScaledDevSq / (n * n)
PopulationStats(r, nums) ==
    LET n == Len(nums)
        var == r.std.sqrtOf
    IN  /\ r.n = n
        /\ r.mean.den # 0
        /\ r.mean.num * n = Sum(nums) * r.mean.den
        /\ var.den # 0
        /\ var.num * n * n * n = SumScaledDevSq(nums, n, Sum(nums)) * var.den

\* C17: for every non-empty list of samples, stats returns the population
\* statistics: mean = sum / n, and std * std * n equals the sum of the squared
\* deviations from the mean (division by n, not n - 1), in the samples' unit.
C17_PopulationStats ==
    (report # NoReport /\ iterations >= 1) =>
        /\ PopulationStats(report.b, buildTimes)
        /\ PopulationStats(report.k, kdSearchTimes)
        /\ PopulationStats(report.l, linSearchTimes)

\* Statistics of a longest series whose samples differ, next to a constant one
C17_Witness ==
    /\ report # NoReport
    /\ Len(buildTimes) = MaxIterations
    /\ \E i, j \in 1..Len(buildTimes) : buildTimes[i] # buildTimes[j]
    /\ report.b.std.sqrtOf.num > 0
    /\ report.k.std.sqrtOf.num = 0

\* The calls the query's search made, in order
QCalls == rangeSearchCalls(heap, roots[query.tree], query.target, query.radius, 0, <<>>)

\* The position of node n in a call log, 0 when no call received n
PosIn(log, n) ==
    IF \E i \in 1..Len(log) : log[i].node = n
    THEN CHOOSE i \in 1..Len(log) : log[i].node = n
    ELSE 0

\* The nodes of a call log, in order
RECURSIVE LogNodes(_)
LogNodes(log) ==
    IF log = <<>> THEN <<>> ELSE <<log[1].node>> \o LogNodes(Tail(log))

\* Point p lies at a distance of at most r from the target
InBall(target, p, r) ==
    /\ r.num >= 0
    /\ LeqMixed(distanceSquared(target, p), Square(r))

\* C21: at every node the search visits, with diff the target's offset from
\* the node's plane on the axis of its depth: the near child (left when
\* diff < 0, right otherwise) is searched next, and wholly before the far
\* child; the far child is searched exactly when |diff| <= radius, the radius
\* itself and not its square; and a far subtree that is skipped holds no
\* point at a distance of at most the radius from the target.  The nodes
\* returned are the visited nodes that pass the match test, in visit order.
C21_PruningRule ==
    Queried =>
        \A log \in {QCalls} :
            /\ results = SelectSeq(LogNodes(log),
                   LAMBDA n : WithinRadius(query.target, heap[n].point, query.radius))
            /\ \A i \in 1..Len(log) :
                LET n == log[i].node
                    d == log[i].depth
                    diff == query.target[(d % Len(query.target)) + 1]
                              - heap[n].point.c[(d % Len(query.target)) + 1]
                    near == IF diff < 0 THEN heap[n].left ELSE heap[n].right
                    far == IF diff < 0 THEN heap[n].right ELSE heap[n].left
                    farAt == PosIn(log, far)
                IN  /\ near # Null =>
                          /\ i < Len(log)
                          /\ log[i + 1].node = near
                          /\ log[i + 1].depth = d + 1
                    /\ far # Null =>
                          /\ (farAt # 0) <=> (Abs(diff) * query.radius.den <= query.radius.num)
                          /\ farAt # 0 =>
                                /\ farAt > i
                                /\ log[farAt].depth = d + 1
                                /\ \A j \in 1..Len(log) :
                                      log[j].node \in Subtree(heap, near) => j < farAt
                          /\ farAt = 0 =>
                                \A m \in Subtree(heap, far) :
                                    ~InBall(query.target, heap[m].point, query.radius)

\* A query with r > 0 that searched the far child of one node after the near
\* child's subtree and skipped the non-empty far subtree of another.
C21_Witness ==
    /\ calls = 1
    /\ query.radius.num > 0
    /\ \E i, j \in 1..Len(QCalls) :
          LET log == QCalls
              di == query.target[(log[i].depth % 2) + 1]
                      - heap[log[i].node].point.c[(log[i].depth % 2) + 1]
              dj == query.target[(log[j].depth % 2) + 1]
                      - heap[log[j].node].point.c[(log[j].depth % 2) + 1]
              farI == IF di < 0 THEN heap[log[i].node].right ELSE heap[log[i].node].left
              nearI == IF di < 0 THEN heap[log[i].node].left ELSE heap[log[i].node].right
              farJ == IF dj < 0 THEN heap[log[j].node].right ELSE heap[log[j].node].left
          IN  /\ farI # Null /\ nearI # Null /\ PosIn(log, farI) > PosIn(log, nearI)
              /\ farJ # Null /\ PosIn(log, farJ) = 0

\* The number of paths from n down to a node, n itself included
RECURSIVE Paths(_, _)
Paths(h, n) ==
    IF n = Null THEN 0 ELSE 1 + Paths(h, h[n].left) + Paths(h, h[n].right)

\* C22: the tree built from n input points has exactly n nodes; every element
\* of the input is the point of exactly one node; no node is reached along
\* more than one path from the root; and a child is absent exactly where the
\* subset it would be built from is empty: the tree is absent when n = 0, and
\* a node built from m points has no left child exactly when floor(m/2) = 0
\* and no right child exactly when m - 1 - floor(m/2) = 0.
C22_OneNodePerPoint ==
    (Len(roots) = 1 /\ calls = 0) =>
        \A nodes \in {Subtree(heap, roots[1])} :
            /\ Cardinality(nodes) = Len(Stored)
            /\ \A i \in 1..Len(Stored) :
                  Cardinality({n \in nodes : heap[n].point = Stored[i]}) = 1
            /\ Paths(heap, roots[1]) = Cardinality(nodes)
            /\ (roots[1] = Null) <=> (Len(Stored) = 0)
            /\ \A n \in nodes :
                  LET m == Cardinality(Subtree(heap, n))
                  IN  /\ (heap[n].left = Null) <=> (m \div 2 = 0)
                      /\ (heap[n].right = Null) <=> (m - 1 - (m \div 2) = 0)

\* A tree built from the most points, two of them with equal coordinates,
\* with a node that has both children and a node that has only a left child.
C22_Witness ==
    /\ Len(roots) = 1
    /\ calls = 0
    /\ points # Missing
    /\ Len(points) = MaxPoints
    /\ \E i, j \in 1..Len(points) : i # j /\ points[i].c = points[j].c
    /\ \E n, m \in Subtree(heap, roots[1]) :
          /\ heap[n].left # Null /\ heap[n].right # Null
          /\ heap[m].left # Null /\ heap[m].right = Null

\* The depth of every node below n, when n lies at depth d
RECURSIVE Depths(_, _, _)
Depths(h, n, d) ==
    IF n = Null THEN {}
    ELSE {[node |-> n, depth |-> d]}
           \cup Depths(h, h[n].left, d + 1) \cup Depths(h, h[n].right, d + 1)

\* C23: every node at depth d of a built tree stores axis = d mod k, a value
\* in 0..k-1, k being the dimension of the points; and on a target of
\* dimension k the axis rangeSearch computes at each node it visits is the
\* axis that node stores.
C23_AxisByDepth ==
    /\ Len(roots) = 1 =>
          \A e \in Depths(heap, roots[1], 0) :
              /\ heap[e.node].axis = e.depth % Len(heap[e.node].point.c)
              /\ heap[e.node].axis \in 0..(Len(heap[e.node].point.c) - 1)
    /\ Queried =>
          \A log \in {QCalls} :
              \A i \in 1..Len(log) :
                  Len(query.target) = Len(heap[log[i].node].point.c)
                      => log[i].axis = heap[log[i].node].axis

\* A query that visited nodes at three depths, on both axes
C23_Witness ==
    /\ calls = 1
    /\ \E i, j, l \in 1..Len(QCalls) :
          /\ QCalls[i].depth = 0 /\ QCalls[j].depth = 1 /\ QCalls[l].depth = 2
          /\ heap[QCalls[j].node].axis = 1
          /\ heap[QCalls[l].node].axis = 0

\* C24: a search ends after finitely many calls: it is handed each node at
\* most once, so the nodes it visits number at most the size of the tree; and
\* when every stored point lies within radius r >= 0 of the target, it visits
\* every node.
C24_VisitsBounded ==
    Queried =>
        \A log \in {QCalls}, nodes \in {Subtree(heap, roots[query.tree])} :
            /\ \A i, j \in 1..Len(log) : i # j => log[i].node # log[j].node
            /\ \A i \in 1..Len(log) : log[i].node \in nodes
            /\ Len(log) <= Cardinality(nodes)
            /\ (/\ query.radius.num >= 0
                /\ \A n \in nodes : WithinRadius(query.target, heap[n].point, query.radius))
                  => {log[i].node : i \in 1..Len(log)} = nodes

\* A search of the largest tree that visited and returned every node, the
\* target lying exactly r from the plane of one of them
C24_Witness ==
    /\ calls = 1
    /\ Cardinality(Subtree(heap, roots[1])) = MaxPoints
    /\ query.radius.num > 0
    /\ Len(QCalls) = MaxPoints
    /\ Len(results) = MaxPoints
    /\ \E i \in 1..Len(QCalls) :
          Abs(query.target[QCalls[i].axis + 1] - At(heap[QCalls[i].node].point, QCalls[i].axis))
              * query.radius.den = query.radius.num

\* C25: on the same tree, target and radius, rangeSearchTrace returns the
\* nodes rangeSearch returns, in the same order; its steps list the nodes
\* rangeSearch visits, in visit order, with ids 1, 2, .., visited; a step's
\* within is true exactly when its node is in the results; and a step's
\* branched is true exactly when the search went on to the far child of its
\* node, which it does, on a far child that is present or absent, exactly
\* when |diff| <= radius.
C25_TraceRefines ==
    Queried =>
        \A log \in {QCalls} :
            /\ trace.results = results
            /\ trace.visited = Len(log)
            /\ Len(trace.steps) = Len(log)
            /\ \A i \in 1..Len(trace.steps) :
                LET step == trace.steps[i]
                    n == log[i].node
                    far == IF step.diff < 0 THEN heap[n].right ELSE heap[n].left
                IN  /\ step.id = i
                    /\ step.point = heap[n].point
                    /\ step.axis = log[i].axis
                    /\ step.diff = query.target[log[i].axis + 1] - At(heap[n].point, log[i].axis)
                    /\ step.within <=> (\E j \in 1..Len(results) : results[j] = n)
                    /\ step.branched <=>
                          (Abs(step.diff) * query.radius.den <= query.radius.num)
                    /\ far # Null => (step.branched <=> PosIn(log, far) # 0)

\* A traced search of a tree of three or more nodes with a step inside the
\* radius and one outside it, a step that went on to a far child that is
\* present and a step that left such a far child out
C25_Witness ==
    /\ calls = 1
    /\ Len(trace.steps) >= 3
    /\ \E i, j \in 1..Len(trace.steps) :
          trace.steps[i].within /\ ~trace.steps[j].within
    /\ \E i, j \in 1..Len(trace.steps) :
          LET ni == heap[QCalls[i].node]
              nj == heap[QCalls[j].node]
          IN  /\ trace.steps[i].branched
              /\ (IF trace.steps[i].diff < 0 THEN ni.right ELSE ni.left) # Null
              /\ ~trace.steps[j].branched
              /\ (IF trace.steps[j].diff < 0 THEN nj.right ELSE nj.left) # Null

\* The API route has answered a request whose fetch succeeded
Measured200 == reply # NoReply /\ reply.status = 200 /\ Len(roots) = 1

\* C26: in the response of the API route, kdVisited is the number of nodes
\* the timed rangeSearch visits on the same root, center and projected
\* radius, and is never more than count; linVisited always equals count.
C26_VisitCounts ==
    Measured200 =>
        /\ reply.body.kdVisited = Len(QCalls)
        /\ reply.body.kdVisited <= reply.body.count
        /\ reply.body.count = Len(restaurants)
        /\ reply.body.linVisited = reply.body.count

\* A response for two records whose search visited only one node
C26_Witness ==
    /\ Measured200
    /\ reply.body.count = 2
    /\ reply.body.kdVisited = 1
    /\ reply.body.linVisited = 2

\* C27: in the response of the API route, kdInsideCount is the number of
\* nodes the tree search returned, also when fetched records share their
\* coordinates or a record has id 0.
C27_InsideCount ==
    Measured200 => reply.body.kdInsideCount = Len(results)

\* The number of levels of nodes below and including n
RECURSIVE Height(_, _)
Height(h, n) ==
    IF n = Null THEN 0
    ELSE LET l == Height(h, h[n].left)
             r == Height(h, h[n].right)
         IN  1 + (IF l >= r THEN l ELSE r)

\* floor(log2(n)) for n >= 1
RECURSIVE Log2Floor(_)
Log2Floor(n) == IF n <= 1 THEN 0 ELSE 1 + Log2Floor(n \div 2)

\* C28: buildKDTree builds a size-balanced tree: a node built from m points
\* has floor(m/2) nodes in its left subtree and m - 1 - floor(m/2) in its
\* right subtree, so the two sizes differ by at most one, and the tree built
\* from n >= 1 points has floor(log2(n)) + 1 levels; the build ends on every
\* finite input with a tree of that many levels.
C28_SizeBalanced ==
    (Len(roots) = 1 /\ calls = 0) =>
        /\ \A n \in Subtree(heap, roots[1]) :
              LET m == Cardinality(Subtree(heap, n))
                  l == Cardinality(Subtree(heap, heap[n].left))
                  r == Cardinality(Subtree(heap, heap[n].right))
              IN  /\ l = m \div 2
                  /\ r = m - 1 - (m \div 2)
                  /\ Abs(l - r) <= 1
                  /\ Height(heap, n) = Log2Floor(m) + 1
        /\ Len(Stored) >= 1 => Height(heap, roots[1]) = Log2Floor(Len(Stored)) + 1
        /\ Len(Stored) = 0 => roots[1] = Null

\* A tree of the most points, with three levels and subtrees of unequal sizes
\* below the root
C28_Witness ==
    /\ Len(roots) = 1
    /\ calls = 0
    /\ points # Missing
    /\ Len(points) = MaxPoints
    /\ Height(heap, roots[1]) = 3
    /\ Cardinality(Subtree(heap, heap[roots[1]].left))
         # Cardinality(Subtree(heap, heap[roots[1]].right))

\* The step lists of the two playbacks
LinSteps == ui.linSearchInfo.steps
KdSteps == ui.kdSearchInfo.steps

\* Both step indices lie in 0..max(0, steps.length - 1)
IndexInRange ==
    /\ ui.linStepIdx \in 0..FinalIdx(LinSteps)
    /\ ui.kdStepIdx \in 0..FinalIdx(KdSteps)

\* No input is still to come and no runBothSearches waits on its timeout
Quiet == inputsLeft = 0 /\ awaiting = <<>>

\* Left to itself, a playback over steps stops on the last step
RunsToTheEnd ==
    /\ (ui.linIsPlaying /\ Len(LinSteps) # 0 /\ Quiet)
          ~> (~ui.linIsPlaying /\ ui.linStepIdx = Len(LinSteps) - 1)
    /\ (ui.kdIsPlaying /\ Len(KdSteps) # 0 /\ Quiet)
          ~> (~ui.kdIsPlaying /\ ui.kdStepIdx = Len(KdSteps) - 1)

LinIsCurrent ==
    ui.linSearchInfo # NoLinInfo =>
        ui.linSearchInfo = LinInfo(restaurants, center, geoRadius)

\* The tree info on display was computed from the values of this render
KdIsCurrent ==
    ui.kdSearchInfo # NoTrace =>
        ui.kdSearchInfo = KdInfo(restaurants, center, geoRadius)

\* No playback is on over an empty step list
PlaysOverSteps ==
    /\ ui.linIsPlaying => Len(LinSteps) # 0
    /\ ui.kdIsPlaying => Len(KdSteps) # 0

\* C30: in CompareMaps a search info that is not empty was computed from the
\* current restaurants, markerPos and radiusMeters, and no step, the
\* continuation of runBothSearches after its await included, installs an
\* info computed from old values or turns a playback on over an emptied
\* step list.
C30_NeverStale ==
    component = "CompareMaps" =>
        /\ LinIsCurrent
        /\ KdIsCurrent
        /\ PlaysOverSteps

====
